---- MODULE Spec2Model ----
(***************************************************************************)
(* A model of the Todoist -> Notion synchroniser: the sync worker          *)
(* (app/pubsub_worker.py), the webhook ingester and the reconciler         *)
(* (app/handlers.py), the store (app/store.py), and the two mappers.       *)
(*                                                                         *)
(* Source = Todoist, Sink = Notion.  The external services are the         *)
(* variables todoist, notion and notion_projects; the Firestore documents  *)
(* are tasks_store, projects_store and last_reconcile.  Every handler is   *)
(* an operator from a world (a record of those values plus the log of the  *)
(* calls it made) to a world, written in the order of its statements; an   *)
(* action applies one handler to the current world.                        *)
(*                                                                         *)
(* SHA-256 is modelled as an injective function of the serialised payload: *)
(* a hash is the tagged tuple of the fields it is computed from.           *)
(***************************************************************************)
EXTENDS Integers, Sequences, FiniteSets, TLC

(***************************************************************************)
(* Bounds of the model.                                                    *)
(***************************************************************************)
MaxQueue == 2       \* jobs published and not yet delivered
MaxUnacked == 1     \* jobs delivered whose acknowledgement was lost
MaxInflight == 2    \* requests the service handles at the same time

Tasks == {"T1", "T2"}
\* the tasks that exist when the service starts; the other ids are given to
\* the tasks added later
UserTasks == {"T1"}
ProjectIds == {"inbox", "p1"}
PageIds == {"n1", "n2"}
Titles == {"a", "b"}
NoDue == "None"
NoId == "None"
NoHash == <<>>

\* TodoistProject.name of the two projects of the model (GET /projects/{id})
project_name(project_id) == IF project_id = "inbox" THEN "Inbox" ELSE "Work"

\* the page the Sink creates for a project (pages.create returns a fresh id)
project_page_id(project_id) == "np_" \o project_id

(***************************************************************************)
(* Data: TodoistTask, a Notion task page, TaskSyncState, PubSubMessage.    *)
(* An absent value is the record whose `exists` field is FALSE.            *)
(***************************************************************************)
TodoistTask(content, description, project_id, labels, priority, due, checked) ==
    [exists |-> TRUE, content |-> content, description |-> description,
     project_id |-> project_id, labels |-> labels, priority |-> priority,
     due |-> due, checked |-> checked, is_recurring |-> FALSE]

NoTask ==
    [exists |-> FALSE, content |-> "", description |-> "", project_id |-> "inbox",
     labels |-> {}, priority |-> 1, due |-> NoDue, checked |-> FALSE,
     is_recurring |-> FALSE]

\* A task page of the Sink.  edited: last_edited_time is after the reconcile
\* cursor; written_by: who wrote the page last ("upsert", "archive", "user").
NoPage ==
    [exists |-> FALSE, title |-> "", priority |-> "P1", due |-> NoDue,
     completed |-> FALSE, archived |-> FALSE, todoist_task_id |-> "",
     project |-> NoId, edited |-> FALSE, written_by |-> ""]

\* last_synced_at is written with the record and read by no code; the record
\* of the model does not keep it.  error_message is "" for None
TaskSyncState(page_id, payload_hash, notion_payload_hash, sync_status, sync_source) ==
    [exists |-> TRUE, capacities_object_id |-> page_id, payload_hash |-> payload_hash,
     notion_payload_hash |-> notion_payload_hash, sync_status |-> sync_status,
     error_message |-> "", sync_source |-> sync_source]

NoState ==
    [exists |-> FALSE, capacities_object_id |-> NoId, payload_hash |-> NoHash,
     notion_payload_hash |-> NoHash, sync_status |-> "ok", error_message |-> "",
     sync_source |-> ""]

\* snapshot kinds: "none" (no snapshot), "ok" (parses as a TodoistTask),
\* "bad" (TodoistTask(**snapshot) raises and the worker falls back to a fetch)
PubSubMessage(action, task_id, kind, task) ==
    [action |-> action, todoist_task_id |-> task_id,
     snapshot |-> [kind |-> kind, task |-> task]]

\* the requests the service can hold at a time, and a free one
Slots == 1..MaxInflight

\* held: what an UPSERT that is past its reads holds (upsert_resolve's answer
\* and the task); seen: what an UPSERT that is past the reads of
\* _ensure_project_exists saw of the project
NoSeen == [looked |-> FALSE, filtered |-> FALSE, known |-> FALSE, found |-> FALSE]

NoHeld == [go |-> FALSE, page |-> NoId, project |-> NoId, task |-> NoTask,
           seen |-> NoSeen]

Idle ==
    [busy |-> FALSE, origin |-> "", message |-> PubSubMessage("", "", "none", NoTask),
     held |-> NoHeld]

(***************************************************************************)
(* State.                                                                  *)
(***************************************************************************)
VARIABLES
    todoist,          \* Source: task id -> TodoistTask or NoTask
    notion,           \* Sink: page id -> task page or NoPage
    notion_projects,  \* Sink: the projects that have a project page
    tasks_store,      \* Firestore: task id -> TaskSyncState or NoState
    projects_store,   \* Firestore: the projects that have a ProjectSyncState
    last_reconcile,   \* Firestore meta document: is the reconcile cursor set
    queue,            \* Pub/Sub: the jobs published and not yet delivered
    unacked,          \* Pub/Sub: jobs delivered whose acknowledgement was lost
    inflight,         \* slot -> the worker operation begun and not finished
    last              \* the last handler run: what it saw and which calls it made

vars == <<todoist, notion, notion_projects, tasks_store, projects_store,
          last_reconcile, queue, unacked, inflight, last>>

\* The world a handler runs in; log is the set of the calls it made, raised
\* says that an exception is propagating, failing names the item of a
\* reconciler loop for which a call of the run fails (NoId: none).
World ==
    [todoist |-> todoist, notion |-> notion, notion_projects |-> notion_projects,
     tasks |-> tasks_store, projects |-> projects_store, cursor |-> last_reconcile,
     log |-> {}, raised |-> FALSE, failing |-> NoId]

Called(W, call, task_id) == [W EXCEPT !.log = @ \cup {<<call, task_id>>}]
Raise(W) == [W EXCEPT !.raised = TRUE]

(***************************************************************************)
(* app/utils.py, app/mapper.py                                             *)
(***************************************************************************)
\* a gate that lets every task through
has_capsync_label_always(labels) == TRUE

has_capsync_label(labels) == "@capsync" \in labels \/ "capsync" \in labels

\* TodoistDue.date is "YYYY-MM-DD" or "YYYY-MM-DDTHH:MM:SS": a date of
\* DueDates, or a date followed by a time of DueTimes
DueDates == {"d1"}
DueTimes == {"T10"}
Dues == {NoDue} \cup DueDates \cup {d \o h : d \in DueDates, h \in DueTimes}

\* task.due.date.split("T"): the date part when the string has a time
due_date_of(task) ==
    IF task.due \in DueDates \cup {NoDue} THEN task.due
    ELSE CHOOSE d \in DueDates : \E h \in DueTimes : task.due = d \o h

\* the time part, None when the string has none
due_time_of(task) ==
    IF task.due \in DueDates \cup {NoDue} THEN NoDue
    ELSE CHOOSE h \in DueTimes : \E d \in DueDates : task.due = d \o h

\* Timestamps are kept relative to the run that reads the clock: a timestamp
\* taken by the run is "now", one taken by a run before it is "earlier".
get_current_timestamp == "now"

\* the fields of the NotionToDo that vary in the model; updated_at and
\* last_synced_at are both get_current_timestamp()
map_task_to_todo(task, project, timestamp) ==
    [title |-> task.content, body |-> task.description,
     todoist_project_id |-> task.project_id, todoist_project_name |-> project,
     todoist_labels |-> task.labels, priority |-> task.priority,
     due_date |-> due_date_of(task), completed |-> task.checked,
     updated_at |-> timestamp, last_synced_at |-> timestamp,
     due_time |-> due_time_of(task)]

\* a fingerprint that leaves the two timestamps of the payload out
compute_payload_hash_stable(data) ==
    <<"sha256", data.title, data.body, data.todoist_project_id,
      data.todoist_project_name, data.todoist_labels, data.priority, data.due_date,
      data.completed, "earlier", "earlier", data.due_time>>

compute_payload_hash(data) ==
    <<"sha256", data.title, data.body, data.todoist_project_id,
      data.todoist_project_name, data.todoist_labels, data.priority, data.due_date,
      data.completed, data.updated_at, data.last_synced_at, data.due_time>>

(***************************************************************************)
(* app/store.py                                                            *)
(***************************************************************************)
save_task_state(W, task_id, state) ==
    Called([W EXCEPT !.tasks[task_id] = state], "store.save_task_state", task_id)

\* an archive that forgets the record
mark_task_archived_skipped(W, task_id) == W

\* an archive that deletes the record
mark_task_archived_deleting(W, task_id) ==
    Called([W EXCEPT !.tasks[task_id] = NoState], "store.delete_task_state", task_id)

mark_task_archived(W, task_id) ==
    LET state == W.tasks[task_id] IN
    IF state.exists
    THEN save_task_state(W, task_id, [state EXCEPT !.sync_status = "archived"])
    ELSE W

\* an error mark that starts the record afresh
mark_task_error_afresh(W, task_id) ==
    save_task_state(W, task_id,
        [NoState EXCEPT !.exists = TRUE, !.sync_status = "error",
                        !.error_message = "error"])

\* error_message is str(e); the model has one error text
mark_task_error(W, task_id) ==
    LET state == W.tasks[task_id] IN
    IF state.exists
    THEN save_task_state(W, task_id,
             [state EXCEPT !.sync_status = "error", !.error_message = "error"])
    ELSE W

\* get_last_reconcile_time: the cursor, FALSE while the document is absent
get_last_reconcile_time(W) == W.cursor

\* set_last_reconcile_time(now): no page is edited-since the new cursor
set_last_reconcile_time(W) ==
    Called([W EXCEPT !.cursor = TRUE,
                     !.notion = [p \in PageIds |-> [W.notion[p] EXCEPT !.edited = FALSE]]],
           "store.set_last_reconcile_time", "")

(***************************************************************************)
(* app/notion_client.py                                                    *)
(***************************************************************************)
\* the name of the Priority select option: f"P{todo.priority}"
priority_select(priority) == "P" \o ToString(priority)

\* pages.create: Name, Todoist Task ID, Priority, Completed, Project, Due Date
create_todo_page(W, page_id, todo, task_id, project_page) ==
    Called([W EXCEPT !.notion[page_id] =
                [exists |-> TRUE, title |-> todo.title,
                 priority |-> priority_select(todo.priority),
                 due |-> IF todo.due_date # NoDue THEN todo.due_date ELSE NoDue,
                 completed |-> todo.completed, archived |-> FALSE,
                 todoist_task_id |-> task_id, project |-> project_page,
                 edited |-> TRUE, written_by |-> "upsert"]],
           "notion.create_todo_page", task_id)

\* pages.update: Name, Priority and Completed always, Due Date only when the
\* todo has one, Project when given; the archived flag is not sent
update_todo_page(W, page_id, todo, task_id, project_page) ==
    Called([W EXCEPT !.notion[page_id] =
                [@ EXCEPT !.title = todo.title,
                          !.priority = priority_select(todo.priority),
                          !.completed = todo.completed,
                          !.due = IF todo.due_date # NoDue THEN todo.due_date ELSE @,
                          !.project = project_page, !.edited = TRUE,
                          !.written_by = "upsert"]],
           "notion.update_todo_page", task_id)

\* pages.update(properties = {Completed: true}, archived = True)
archive_page(W, page_id, task_id) ==
    Called([W EXCEPT !.notion[page_id] =
                [@ EXCEPT !.completed = TRUE, !.archived = TRUE, !.edited = TRUE,
                          !.written_by = "archive"]],
           "notion.archive_page", task_id)

\* databases.query on the Todoist Task ID property: the first match
find_todo_by_todoist_id(W, task_id) ==
    LET hits == {p \in PageIds : W.notion[p].exists
                                 /\ W.notion[p].todoist_task_id = task_id}
    IN IF hits = {} THEN NoId ELSE CHOOSE p \in hits : TRUE

\* databases.query on last_edited_time after the cursor; with_archived says
\* whether the Sink returns pages that are archived
get_tasks_edited_since(W, with_archived) ==
    {p \in PageIds : /\ W.notion[p].exists
                     /\ W.notion[p].edited
                     /\ (with_archived \/ ~W.notion[p].archived)}

FreePageId(W) ==
    LET free == {p \in PageIds : ~W.notion[p].exists}
    IN IF free = {} THEN NoId ELSE CHOOSE p \in free : TRUE

(***************************************************************************)
(* app/todoist_client.py                                                   *)
(***************************************************************************)
\* POST /tasks/{id} with a description; a task that is gone answers 404
update_task_description(W, task_id, new_description) ==
    IF ~W.todoist[task_id].exists THEN Raise(W)
    ELSE Called([W EXCEPT !.todoist[task_id].description = new_description],
                "todoist.update_task_description", task_id)

\* GET /tasks: the active (not completed) tasks
get_tasks(W) == {t \in Tasks : W.todoist[t].exists /\ ~W.todoist[t].checked}

get_active_tasks_with_label(W) ==
    {t \in get_tasks(W) : "capsync" \in W.todoist[t].labels
                          \/ "@capsync" \in W.todoist[t].labels}

\* GET /tasks with the filter "@capsync & is:completed"
get_completed_tasks_with_label(W) ==
    {t \in Tasks : /\ W.todoist[t].exists /\ W.todoist[t].checked
                   /\ has_capsync_label(W.todoist[t].labels)}

add_label_to_task(W, task_id, label) ==
    IF ~W.todoist[task_id].exists THEN Raise(W)
    ELSE Called([W EXCEPT !.todoist[task_id].labels = @ \cup {label}],
                "todoist.add_label_to_task", task_id)

remove_label_from_task(W, task_id, label) ==
    IF ~W.todoist[task_id].exists THEN Raise(W)
    ELSE Called([W EXCEPT !.todoist[task_id].labels = @ \ {label}],
                "todoist.remove_label_from_task", task_id)

complete_task(W, task_id) ==
    IF ~W.todoist[task_id].exists THEN Raise(W)
    ELSE Called([W EXCEPT !.todoist[task_id].checked = TRUE],
                "todoist.complete_task", task_id)

uncomplete_task(W, task_id) ==
    IF ~W.todoist[task_id].exists THEN Raise(W)
    ELSE Called([W EXCEPT !.todoist[task_id].checked = FALSE],
                "todoist.uncomplete_task", task_id)

\* update_task(id, content, priority, due_date): an argument that is None
\* (NoId, 0, NoDue) is not sent
update_task(W, task_id, content, priority, due_date) ==
    IF ~W.todoist[task_id].exists THEN Raise(W)
    ELSE Called([W EXCEPT
                    !.todoist[task_id].content = IF content # NoId THEN content ELSE @,
                    !.todoist[task_id].priority = IF priority # 0 THEN priority ELSE @,
                    !.todoist[task_id].due = IF due_date # NoDue THEN due_date ELSE @],
                "todoist.update_task", task_id)

(***************************************************************************)
(* app/reverse_mapper.py                                                   *)
(***************************************************************************)
\* int(name.replace("P", "")), 1 when that does not parse
priority_of_select(name) ==
    IF \E n \in 1..4 : priority_select(n) = name
    THEN CHOOSE n \in 1..4 : priority_select(n) = name
    ELSE 1

extract_notion_task_properties(page) ==
    [title |-> page.title, priority |-> priority_of_select(page.priority),
     due_date |-> page.due, completed |-> page.completed,
     todoist_task_id |-> page.todoist_task_id, project_notion_id |-> page.project]

\* hashlib.sha256(...).hexdigest(): the digest of a text, taken as free of
\* collisions
sha256(serialized) == <<"sha256", serialized>>

\* json.dumps(sync_fields, sort_keys=True, default=str) of the four fields
\* title, priority, due_date, completed: keys in sorted order, a string in
\* quotes, None as null, a bool as true or false, an int in digits.  The
\* titles and dates of the model hold no quote and no backslash, so nothing
\* is escaped
json_dumps_sync_fields(props) ==
    LET json_string(text) == "\"" \o text \o "\""
        json_bool(b) == IF b THEN "true" ELSE "false"
        json_optional(text) == IF text = NoDue THEN "null" ELSE json_string(text)
    IN "{\"completed\": " \o json_bool(props.completed)
       \o ", \"due_date\": " \o json_optional(props.due_date)
       \o ", \"priority\": " \o ToString(props.priority)
       \o ", \"title\": " \o json_string(props.title) \o "}"

\* a fingerprint over a larger subset: the project relation is hashed too
compute_notion_properties_hash_enlarged(props) ==
    sha256(json_dumps_sync_fields(props) \o props.project_notion_id)

compute_notion_properties_hash(props) ==
    sha256(json_dumps_sync_fields(props))

\* the names of the fields whose Sink value differs from the Source value
notion_props_differ(props, todoist_title, todoist_priority, todoist_due_date, todoist_completed) ==
    (IF props.title # todoist_title THEN {"title"} ELSE {})
    \cup (IF props.priority # todoist_priority THEN {"priority"} ELSE {})
    \cup (IF props.due_date # todoist_due_date
             /\ (props.due_date # NoDue \/ todoist_due_date # NoDue)
          THEN {"due_date"} ELSE {})
    \cup (IF props.completed # todoist_completed THEN {"completed"} ELSE {})

(***************************************************************************)
(* app/pubsub_worker.py: SyncWorker                                        *)
(***************************************************************************)
\* settings.add_notion_backlink
add_notion_backlink_enabled == TRUE

\* the description once the two "View ... in Notion" lines are appended
HasNotionLink(description) == description = "notion.so"
with_backlink(description) == "notion.so"

\* a resolver without the Inbox filter
is_filtered_project_never(name) == FALSE

\* the Inbox filter at the top of _ensure_project_exists
is_filtered_project(name) == name = "Inbox"

\* The project pages of the Sink are named after their project: the page of
\* project p is p, and a further page made for the same project is p+.
another_page(project_id) == project_id \o "+"

\* pages.create in the Projects database: the Sink makes a page whether or not
\* the project has one
new_project_page(W, project_id) ==
    IF project_id \in W.notion_projects THEN another_page(project_id) ELSE project_id

create_project_page(W, project_id) ==
    Called([W EXCEPT !.notion_projects = @ \cup {new_project_page(W, project_id)}],
           "notion.create_project_page", project_id)

\* the reads of _ensure_project_exists: the Inbox filter, the project record,
\* the Sink query by project id
ensure_project_lookup(W, project_id) ==
    [looked |-> TRUE, filtered |-> is_filtered_project(project_name(project_id)),
     known |-> project_id \in W.projects,
     found |-> project_id \in W.notion_projects]

\* a resolver that never looks and always creates
ensure_project_finish_creating(W, project_id, seen) ==
    IF seen.filtered THEN [w |-> W, id |-> NoId]
    ELSE [w |-> Called([create_project_page(W, project_id)
                            EXCEPT !.projects = @ \cup {project_id}],
                       "store.save_project_state", project_id),
          id |-> project_page_id(new_project_page(W, project_id))]

\* the rest of _ensure_project_exists after its reads `seen`: [w, id], the
\* world after the call and the project page id, NoId for Inbox
ensure_project_finish(W, project_id, seen) ==
    IF seen.filtered
    THEN [w |-> W, id |-> NoId]
    ELSE IF seen.known
    THEN [w |-> W, id |-> project_page_id(project_id)]
    ELSE LET W1 == IF seen.found
                   THEN Called(W, "notion.update_project_page", project_id)
                   ELSE create_project_page(W, project_id)
         IN [w |-> Called([W1 EXCEPT !.projects = @ \cup {project_id}],
                          "store.save_project_state", project_id),
             id |-> IF seen.found THEN project_page_id(project_id)
                    ELSE project_page_id(new_project_page(W, project_id))]

ensure_project_exists(W, project_id) ==
    ensure_project_finish(W, project_id, ensure_project_lookup(W, project_id))

add_notion_backlink(W, task, task_id) ==
    IF HasNotionLink(task.description) THEN W
    ELSE LET W1 == update_task_description(W, task_id, with_backlink(task.description))
         IN [W1 EXCEPT !.raised = FALSE]   \* a failure here is logged, not raised

\* an archive handler that lets a failure of the Sink call through
handle_archive_propagating(W, task_id) ==
    LET existing_state == W.tasks[task_id] IN
    IF ~existing_state.exists \/ existing_state.capacities_object_id = NoId
    THEN W
    ELSE IF W.failing = "archive" THEN Raise(W)
    ELSE mark_task_archived(
             archive_page(W, existing_state.capacities_object_id, task_id), task_id)

\* W.failing = "archive": notion.archive_page raises, which is logged
handle_archive(W, task_id) ==
    LET existing_state == W.tasks[task_id] IN
    IF ~existing_state.exists \/ existing_state.capacities_object_id = NoId
    THEN W
    ELSE mark_task_archived(
             IF W.failing = "archive"
             THEN Called(W, "log.archive_failed", task_id)
             ELSE archive_page(W, existing_state.capacities_object_id, task_id),
             task_id)

\* a worker that looks for the page of a task in the record only
upsert_resolve_by_record(W, task, task_id, existing_state, timestamp) ==
    LET todo == map_task_to_todo(task, project_name(task.project_id), timestamp)
        payload_hash == compute_payload_hash(todo)
    IN
    IF existing_state.exists /\ existing_state.payload_hash = payload_hash
    THEN [w |-> Called(W, "log.task_unchanged", task_id), go |-> FALSE,
          page |-> NoId, project |-> NoId]
    ELSE
    LET ep == ensure_project_exists(W, task.project_id) IN
    IF ep.id = NoId
    THEN [w |-> Called(ep.w, "log.filtered_project", task_id), go |-> FALSE,
          page |-> NoId, project |-> NoId]
    ELSE [w |-> ep.w, go |-> TRUE,
          page |-> IF existing_state.exists
                   THEN existing_state.capacities_object_id ELSE NoId,
          project |-> ep.id]

\* _handle_upsert from "Fetch related data" up to the page the worker settles
\* on: task is what the worker holds (the snapshot or the fetched task),
\* existing_state what it read before the gate.  [w, go, page, project]: the
\* world so far, whether the run goes on to write, the page id it found
\* (NoId: none, it will create one) and the project page id
upsert_resolve_seen(W, task, task_id, existing_state, timestamp, seen) ==
    LET todo == map_task_to_todo(task, project_name(task.project_id), timestamp)
        payload_hash == compute_payload_hash(todo)
    IN
    IF existing_state.exists /\ existing_state.payload_hash = payload_hash
    THEN [w |-> Called(W, "log.task_unchanged", task_id), go |-> FALSE,
          page |-> NoId, project |-> NoId]
    ELSE
    LET ep == ensure_project_finish(W, task.project_id, seen) IN
    IF ep.id = NoId
    THEN [w |-> Called(ep.w, "log.filtered_project", task_id), go |-> FALSE,
          page |-> NoId, project |-> NoId]
    ELSE
    LET W1 == ep.w
        from_state == IF existing_state.exists
                      THEN existing_state.capacities_object_id ELSE NoId
        from_query == IF from_state # NoId THEN from_state
                      ELSE find_todo_by_todoist_id(W1, task_id)
        recheck == W1.tasks[task_id]
        notion_page_id == IF from_query # NoId THEN from_query
                          ELSE IF recheck.exists THEN recheck.capacities_object_id
                          ELSE NoId
    IN [w |-> W1, go |-> TRUE, page |-> notion_page_id, project |-> ep.id]

upsert_resolve(W, task, task_id, existing_state, timestamp) ==
    upsert_resolve_seen(W, task, task_id, existing_state, timestamp,
                        ensure_project_lookup(W, task.project_id))

\* a worker that saves the record before it writes the page
upsert_write_saving_first(W1, task, task_id, notion_page_id, project_page, sync_source, timestamp, reject) ==
    LET todo == map_task_to_todo(task, project_name(task.project_id), timestamp)
        payload_hash == compute_payload_hash(todo)
        new_page_id == FreePageId(W1)
        page_id == IF notion_page_id # NoId THEN notion_page_id ELSE new_page_id
        W2 == save_task_state(W1, task_id,
                  TaskSyncState(page_id, payload_hash, NoHash, "ok", sync_source))
    IN
    IF notion_page_id # NoId /\ W1.notion[notion_page_id].archived /\ reject = "sink"
    THEN Raise(W2)
    ELSE IF notion_page_id = NoId /\ (new_page_id = NoId \/ reject = "sink")
    THEN Raise(W2)
    ELSE
    LET W3 == IF notion_page_id # NoId
              THEN update_todo_page(W2, page_id, todo, task_id, project_page)
              ELSE create_todo_page(W2, page_id, todo, task_id, project_page)
    IN IF add_notion_backlink_enabled
       THEN add_notion_backlink(W3, task, task_id)
       ELSE W3

\* _handle_upsert from the page update or create on, in the world W1 the
\* calls meet.  reject = "sink": the Sink refuses the update of an archived
\* page, or pages.create fails; reject = "store": the save of the record fails
upsert_write(W1, task, task_id, notion_page_id, project_page, sync_source, timestamp, reject) ==
    LET todo == map_task_to_todo(task, project_name(task.project_id), timestamp)
        payload_hash == compute_payload_hash(todo)
        new_page_id == FreePageId(W1)
    IN
    IF notion_page_id # NoId /\ W1.notion[notion_page_id].archived /\ reject = "sink"
    THEN Raise(W1)
    ELSE IF notion_page_id = NoId /\ (new_page_id = NoId \/ reject = "sink")
    THEN Raise(W1)
    ELSE
    LET page_id == IF notion_page_id # NoId THEN notion_page_id ELSE new_page_id
        W2 == IF notion_page_id # NoId
              THEN update_todo_page(W1, page_id, todo, task_id, project_page)
              ELSE create_todo_page(W1, page_id, todo, task_id, project_page)
        W3 == save_task_state(W2, task_id,
                  TaskSyncState(page_id, payload_hash, NoHash, "ok", sync_source))
    IN IF reject = "store" THEN Raise(W2)    \* save_task_state raises
       ELSE IF add_notion_backlink_enabled
       THEN add_notion_backlink(W3, task, task_id)
       ELSE W3

\* the rest of _handle_upsert once the page is settled (r of upsert_resolve)
upsert_resolved(r, task, task_id, sync_source, timestamp, reject) ==
    IF ~r.go THEN r.w
    ELSE upsert_write(r.w, task, task_id, r.page, r.project, sync_source, timestamp,
                      reject)

upsert_task(W, task, task_id, existing_state, sync_source, timestamp, reject) ==
    upsert_resolved(upsert_resolve(W, task, task_id, existing_state, timestamp),
                    task, task_id, sync_source, timestamp, reject)

\* the task the worker holds: the snapshot when it parses, else GET /tasks/{id}
task_seen(W, message) ==
    IF message.snapshot.kind = "ok" THEN message.snapshot.task
    ELSE W.todoist[message.todoist_task_id]

\* a label gate without the exception for completed tasks that have a record
handle_upsert_gating_completed(W, message, sync_source, timestamp, reject) ==
    LET task_id == message.todoist_task_id
        task == task_seen(W, message)
        existing_state == W.tasks[task_id]
    IN
    IF ~task.exists THEN Raise(W)
    ELSE IF ~has_capsync_label(task.labels)
    THEN IF existing_state.exists
         THEN handle_archive(Called(W, "log.no_label", task_id), task_id)
         ELSE Called(W, "log.no_label", task_id)
    ELSE upsert_task(W, task, task_id, existing_state, sync_source, timestamp, reject)

handle_upsert(W, message, sync_source, timestamp, reject) ==
    LET task_id == message.todoist_task_id
        task == task_seen(W, message)
        existing_state == W.tasks[task_id]
    IN
    IF ~task.exists THEN Raise(W)    \* get_task raises (404)
    ELSE IF ~has_capsync_label(task.labels)
            /\ ~(task.checked /\ existing_state.exists)
    THEN IF existing_state.exists
         THEN handle_archive(Called(W, "log.no_label", task_id), task_id)
         ELSE Called(W, "log.no_label", task_id)
    ELSE upsert_task(W, task, task_id, existing_state, sync_source, timestamp, reject)

\* the `except Exception` of process_message around the world W1 the path
\* ended in
process_message_except(W1, task_id) ==
    IF W1.raised
    THEN mark_task_error(
             Called([W1 EXCEPT !.raised = FALSE], "worker.error", task_id), task_id)
    ELSE W1

process_message(W, message, sync_source, timestamp, reject) ==
    process_message_except(
        IF message.action = "UPSERT"
        THEN handle_upsert(W, message, sync_source, timestamp, reject)
        ELSE handle_archive(W, message.todoist_task_id),
        message.todoist_task_id)

\* an ingester that does not know the note events
determine_action_without_notes(event_name) ==
    IF event_name \in {"item:added", "item:updated", "item:completed",
                       "item:uncompleted"}
    THEN "UPSERT"
    ELSE IF event_name \in {"item:deleted"} THEN "ARCHIVE"
    ELSE "ignore"

\* what _determine_action answers: "UPSERT", "ARCHIVE" or "ignore"
determine_action(event_name) ==
    IF event_name \in {"item:added", "item:updated", "item:completed",
                       "item:uncompleted", "note:added", "note:updated"}
    THEN "UPSERT"
    ELSE IF event_name \in {"item:deleted"} THEN "ARCHIVE"
    ELSE "ignore"

(***************************************************************************)
(* app/handlers.py: WebhookHandler                                         *)
(***************************************************************************)
\* handle_event: the queue after the event; event_data is the task as the
\* event carries it and becomes the job's snapshot
handle_event(q, event_name, task_id, event_data) ==
    LET action == determine_action(event_name) IN
    IF task_id = "" \/ action = "ignore" THEN q
    ELSE Append(q, PubSubMessage(action, task_id,
                                 IF event_data.exists THEN "ok" ELSE "bad",
                                 event_data))

(***************************************************************************)
(* app/handlers.py: ReconcileHandler                                       *)
(***************************************************************************)
\* settings.auto_label_tasks, enable_notion_to_todoist
auto_label_tasks_enabled == TRUE
enable_notion_to_todoist == TRUE

\* a rule that labels recurring tasks too
should_auto_label_task_recurring(project_id, is_recurring, is_inbox) ==
    IF is_inbox THEN FALSE ELSE TRUE

should_auto_label_task(project_id, is_recurring, is_inbox) ==
    IF is_inbox THEN FALSE ELSE IF is_recurring THEN FALSE ELSE TRUE

\* the body of the loop of _auto_label_tasks for one fetched task
auto_label_task(W, t) ==
    LET task == W.todoist[t]
        is_inbox == project_name(task.project_id) = "Inbox"
        has_label == has_capsync_label(task.labels)
        is_recurring == IF task.due # NoDue THEN task.is_recurring ELSE FALSE
        should_label == should_auto_label_task(task.project_id, is_recurring, is_inbox)
        W1 == IF task.checked THEN W
              ELSE IF should_label /\ ~has_label
              THEN add_label_to_task(W, t, "capsync")
              ELSE IF ~should_label /\ has_label
              THEN remove_label_from_task(W, t, "capsync")
              ELSE W
    IN [W1 EXCEPT !.raised = FALSE]

RECURSIVE auto_label_loop(_, _)
auto_label_loop(W, all_tasks) ==
    IF all_tasks = {} THEN W
    ELSE LET t == CHOOSE x \in all_tasks : TRUE
         IN auto_label_loop(auto_label_task(W, t), all_tasks \ {t})

auto_label_tasks(W) ==
    IF ~auto_label_tasks_enabled THEN W
    ELSE auto_label_loop(W, get_tasks(W))

\* the forward sweep: one UPSERT per fetched task, the worker called directly
\* with the fetched task (its state in world F) as the snapshot
RECURSIVE upsert_loop(_, _, _, _, _)
upsert_loop(W, F, all_fetched_tasks, timestamp, reject) ==
    IF all_fetched_tasks = {} THEN W
    ELSE LET t == CHOOSE x \in all_fetched_tasks : TRUE
             message == PubSubMessage("UPSERT", t, "ok", F.todoist[t])
         IN upsert_loop(process_message(W, message, "reconciliation", timestamp, reject),
                        F, all_fetched_tasks \ {t}, timestamp, reject)

\* the body of the loop of _sync_notion_to_todoist for one edited page
sync_notion_page(W, p, timestamp) ==
    LET notion_props == extract_notion_task_properties(W.notion[p])
        t == notion_props.todoist_task_id
    IN
    IF t = "" THEN W
    ELSE
    LET current_hash == compute_notion_properties_hash(notion_props)
        state == W.tasks[t]
        todoist_task == W.todoist[t]
    IN
    IF ~state.exists THEN W
    ELSE IF state.notion_payload_hash = current_hash THEN W
    ELSE IF ~todoist_task.exists THEN W     \* get_task raises: continue
    ELSE
    LET changes == notion_props_differ(notion_props, todoist_task.content,
                       todoist_task.priority, todoist_task.due,   \* due.date as it is
                       todoist_task.checked)
    IN
    IF changes = {}
    THEN save_task_state(W, t, [state EXCEPT !.notion_payload_hash = current_hash])
    ELSE
    LET W1 == IF "completed" \in changes
              THEN IF notion_props.completed THEN complete_task(W, t)
                   ELSE uncomplete_task(W, t)
              ELSE W
        W2 == IF changes \ {"completed"} # {}
              THEN IF W.failing = t THEN Raise(W1)     \* update_task raises
              ELSE update_task(W1, t,
                       IF "title" \in changes THEN notion_props.title ELSE NoId,
                       IF "priority" \in changes THEN notion_props.priority ELSE 0,
                       IF "due_date" \in changes THEN notion_props.due_date ELSE NoDue)
              ELSE W1
        updated_task == W2.todoist[t]
        todo == map_task_to_todo(updated_task, project_name(updated_task.project_id),
                                 timestamp)
    IN IF W2.raised       \* except: the error is logged, the loop goes on
       THEN Called([W2 EXCEPT !.raised = W.raised], "reconcile.pull_error", t)
       ELSE save_task_state(W2, t,
                [state EXCEPT !.payload_hash = compute_payload_hash(todo),
                              !.notion_payload_hash = current_hash,
                              !.sync_source = "notion-to-todoist"])

RECURSIVE sync_notion_loop(_, _, _)
sync_notion_loop(W, edited_pages, timestamp) ==
    IF edited_pages = {} THEN W
    ELSE LET p == CHOOSE x \in edited_pages : TRUE
         IN sync_notion_loop(sync_notion_page(W, p, timestamp),
                             edited_pages \ {p}, timestamp)

sync_notion_to_todoist(W, timestamp, with_archived) ==
    IF ~get_last_reconcile_time(W) THEN set_last_reconcile_time(W)
    ELSE set_last_reconcile_time(
             sync_notion_loop(W, get_tasks_edited_since(W, with_archived), timestamp))

\* the archive-drift step: one ARCHIVE per stored id that was not fetched
RECURSIVE archive_loop(_, _, _)
archive_loop(W, tasks_to_archive, reject) ==
    IF tasks_to_archive = {} THEN W
    ELSE LET t == CHOOSE x \in tasks_to_archive : TRUE
             message == PubSubMessage("ARCHIVE", t, "none", NoTask)
         IN archive_loop(process_message(Called(W, "reconcile.archive_job", t),
                                         message, "webhook", get_current_timestamp,
                                         reject),
                         tasks_to_archive \ {t}, reject)

\* settings.enable_notion_task_creation
enable_notion_task_creation == TRUE

\* databases.query for the task pages whose Todoist Task ID is empty
get_tasks_without_todoist_id(W) ==
    {p \in PageIds : W.notion[p].exists /\ W.notion[p].todoist_task_id = ""}

\* the stored project records as a lookup: project page id -> project id
get_all_project_states(W) == W.projects

notion_to_todoist_project(project_states, project_notion_id) ==
    LET hits == {pid \in project_states : project_page_id(pid) = project_notion_id}
    IN IF hits = {} THEN NoId ELSE CHOOSE pid \in hits : TRUE

\* the id the Source gives to the next task it creates
FreeTaskId(W) ==
    LET free == {t \in Tasks : /\ ~W.todoist[t].exists /\ ~W.tasks[t].exists
                               /\ find_todo_by_todoist_id(W, t) = NoId}
    IN IF free = {} THEN NoId ELSE CHOOSE t \in free : TRUE

\* POST /tasks: the new task is active and has no description
create_task(W, task_id, content, project_id, priority, due_date, labels) ==
    Called([W EXCEPT !.todoist[task_id] =
                TodoistTask(content, "", project_id, labels, priority, due_date, FALSE)],
           "todoist.create_task", task_id)

\* pages.update of the Todoist Task ID and Todoist URL properties
set_todoist_task_id(W, page_id, task_id) ==
    Called([W EXCEPT !.notion[page_id] =
                [@ EXCEPT !.todoist_task_id = task_id, !.edited = TRUE,
                          !.written_by = "create"]],
           "notion.set_todoist_task_id", task_id)

\* a create-from-Sink step that takes archived pages too
skips_page_never(page) == page.title = ""

\* the two `continue`s at the top of the loop body
skips_page(page) == page.title = "" \/ page.archived

\* the body of the loop of _create_todoist_tasks_from_notion for one page; an
\* exception is logged and the loop goes on
create_task_from_page(W, p, project_states, timestamp) ==
    LET page == W.notion[p]
        notion_props == extract_notion_task_properties(page)
        todoist_project_id ==
            IF notion_props.project_notion_id # NoId
            THEN notion_to_todoist_project(project_states, notion_props.project_notion_id)
            ELSE NoId
        new_task_id == FreeTaskId(W)
    IN
    IF skips_page(page) THEN W
    ELSE IF todoist_project_id = NoId THEN W
    ELSE IF new_task_id = NoId THEN W      \* create_task raises: logged
    ELSE
    LET W1 == Called(create_task(W, new_task_id, notion_props.title,
                                 todoist_project_id, notion_props.priority,
                                 notion_props.due_date, {"capsync"}),
                     "log.created_from_notion." \o p, new_task_id)
        new_task == W1.todoist[new_task_id]
        W2 == set_todoist_task_id(W1, p, new_task_id)
        notion_hash == compute_notion_properties_hash(notion_props)
        todo == map_task_to_todo(new_task, project_name(todoist_project_id), timestamp)
        payload_hash == compute_payload_hash(todo)
    IN IF W.failing = p THEN W1              \* set_todoist_task_id raises: logged
       ELSE IF W.failing = "store" THEN W2   \* save_task_state raises: logged
       ELSE save_task_state(W2, new_task_id,
                TaskSyncState(p, payload_hash, notion_hash, "ok", "notion-created"))

RECURSIVE create_tasks_loop(_, _, _, _)
create_tasks_loop(W, pages, project_states, timestamp) ==
    IF pages = {} THEN W
    ELSE LET p == CHOOSE x \in pages : TRUE
         IN create_tasks_loop(create_task_from_page(W, p, project_states, timestamp),
                              pages \ {p}, project_states, timestamp)

create_todoist_tasks_from_notion(W, timestamp) ==
    LET pages == get_tasks_without_todoist_id(W) IN
    IF pages = {} THEN W
    ELSE create_tasks_loop(W, pages, get_all_project_states(W), timestamp)

\* The worlds of one reconcile run: labelled after the auto-label step, swept
\* after the forward sweep, pulled after the reverse sweep, done at the end.
\* Each operator below is reconcile from one of its steps on, given the
\* worlds of the steps before it.
\* step 6, the archive drift: stored ids that were not fetched
reconcile_archive(W1, W2, W3, W4, tasks_to_archive, reject) ==
    [labelled |-> W1, swept |-> W2, pulled |-> W3,
     done |-> archive_loop(W4, tasks_to_archive, reject)]

\* step 5, create-from-Sink
reconcile_create(W1, W2, W3, tasks_to_archive, timestamp, reject) ==
    reconcile_archive(W1, W2, W3,
        IF enable_notion_task_creation
        THEN create_todoist_tasks_from_notion(W3, timestamp) ELSE W3,
        tasks_to_archive, reject)

\* step 4, the reverse sweep
reconcile_pull(W1, W2, tasks_to_archive, timestamp, reject, with_archived) ==
    reconcile_create(W1, W2,
        IF enable_notion_to_todoist
        THEN sync_notion_to_todoist(W2, timestamp, with_archived) ELSE W2,
        tasks_to_archive, timestamp, reject)

\* a run that issues an ARCHIVE job for every stored id
reconcile_sweep_archiving_all(W1, all_fetched_tasks, timestamp, reject, with_archived) ==
    reconcile_pull(W1, upsert_loop(W1, W1, all_fetched_tasks, timestamp, reject),
        {t \in Tasks : W1.tasks[t].exists},
        timestamp, reject, with_archived)

\* step 3, the forward sweep over the fetched tasks; stored_task_ids is read
\* before it
reconcile_sweep(W1, all_fetched_tasks, timestamp, reject, with_archived) ==
    reconcile_pull(W1, upsert_loop(W1, W1, all_fetched_tasks, timestamp, reject),
        {t \in Tasks : W1.tasks[t].exists} \ all_fetched_tasks,
        timestamp, reject, with_archived)

\* the two queries of the Source.  completed_fail: the query for the
\* completed tasks fails
reconcile_fetch(W1, timestamp, reject, completed_fail, with_archived) ==
    reconcile_sweep(W1,
        get_active_tasks_with_label(W1)
        \cup (IF completed_fail THEN {} ELSE get_completed_tasks_with_label(W1)),
        timestamp, reject, with_archived)

\* step 2, _reconcile_projects: for every Source project the Sink query for
\* its page, which is made outside the try of the loop body.  failing: the
\* project whose query raises (NoId: none).  No Source project of the model
\* is archived and no project page is renamed, so the status sync and the
\* name sync that follow the query write nothing.
RECURSIVE reconcile_projects_loop(_, _, _)
reconcile_projects_loop(W, all_todoist_projects, failing) ==
    IF all_todoist_projects = {} THEN W
    ELSE LET project == CHOOSE x \in all_todoist_projects : TRUE
             W1 == Called(W, "notion.find_project_by_todoist_id", project)
         IN IF project = failing THEN Raise(W1)
            ELSE reconcile_projects_loop(W1, all_todoist_projects \ {project}, failing)

reconcile_projects(W) == reconcile_projects_loop(W, ProjectIds, W.failing)

\* reconcile after step 2: the exception of _reconcile_projects is caught
\* nowhere in reconcile, so it ends the run
reconcile_after_projects(W1, W2, timestamp, reject, completed_fail, with_archived) ==
    IF W2.raised
    THEN [labelled |-> W1, swept |-> W2, pulled |-> W2, done |-> W2]
    ELSE reconcile_fetch(W2, timestamp, reject, completed_fail, with_archived)

reconcile_labelled(W1, timestamp, reject, completed_fail, with_archived) ==
    reconcile_after_projects(W1, reconcile_projects(W1), timestamp, reject,
                             completed_fail, with_archived)

\* one run in which a call made for the item `failing` raises: the Sink
\* query for a project, the write-back of the task id to a page of the
\* create-from-Sink step, or ("store") the save of a record of that step
reconcile_run(W, timestamp, reject, completed_fail, with_archived, failing) ==
    reconcile_labelled(auto_label_tasks([W EXCEPT !.failing = failing]), timestamp,
                       reject, completed_fail, with_archived)

reconcile(W, timestamp, reject, completed_fail, with_archived) ==
    reconcile_run(W, timestamp, reject, completed_fail, with_archived, NoId)

(***************************************************************************)
(* app/migration.py: the one-time migration to the task ids of the new     *)
(* Source API.  An id of the old API is a string of digits.  The records   *)
(* the store keeps under old ids are not in the model; the wipe deletes    *)
(* them with the others.  The titles of the model have no surrounding      *)
(* whitespace, so strip() changes none.                                    *)
(***************************************************************************)
\* the ids of the old API that the legacy pages of the model carry
NumericIds == {"101"}

\* bool(task_id) and not task_id.isdigit()
is_v1_id(task_id) == task_id # "" /\ task_id \notin NumericIds

\* databases.query without a filter: the pages that are not in the trash
get_all_task_pages(W) == {p \in PageIds : W.notion[p].exists /\ ~W.notion[p].archived}

\* v1_by_title.get(title, []): the fetched tasks with that title
v1_by_title(W, v1_tasks, title) == {t \in v1_tasks : W.todoist[t].content = title}

\* _match_tasks, matched_tasks: an old-id page and the first task of its title
match_tasks(W, v1_tasks, old_id_pages) ==
    {[notion_page_id |-> p,
      new_id |-> CHOOSE t \in v1_by_title(W, v1_tasks, W.notion[p].title) : TRUE] :
        p \in {q \in old_id_pages : v1_by_title(W, v1_tasks, W.notion[q].title) # {}}}

\* _match_tasks, duplicate_new_pages_to_archive: the new-id pages that carry
\* the title and the new id of a match
duplicate_new_pages(W, matched_tasks, new_id_pages) ==
    {p \in new_id_pages :
        \E m \in matched_tasks :
            /\ W.notion[p].title = W.notion[m.notion_page_id].title
            /\ W.notion[p].todoist_task_id = m.new_id}

\* new-id pages that are neither matched nor duplicates
genuinely_new_pages(W, matched_tasks, duplicates, new_id_pages) ==
    {p \in new_id_pages :
        /\ W.notion[p].todoist_task_id \notin {m.new_id : m \in matched_tasks}
        /\ p \notin duplicates}

\* _match_projects: the project pages that carry an id of the old API
match_projects(W) == {pid \in W.notion_projects : ~is_v1_id(pid)}

\* pages.update of the Todoist Task ID and Todoist URL of every matched page
update_todoist_task_ids(W, matched_tasks) ==
    [W EXCEPT
        !.notion = [p \in PageIds |->
                      IF \E m \in matched_tasks : m.notion_page_id = p
                      THEN [W.notion[p] EXCEPT
                               !.todoist_task_id =
                                   (CHOOSE m \in matched_tasks : m.notion_page_id = p).new_id,
                               !.edited = TRUE, !.written_by = "migration"]
                      ELSE W.notion[p]],
        !.log = @ \cup {<<"notion.update_todoist_task_id", m.new_id>> : m \in matched_tasks}]

RECURSIVE archive_duplicates(_, _)
archive_duplicates(W, duplicates) ==
    IF duplicates = {} THEN W
    ELSE LET p == CHOOSE x \in duplicates : TRUE
         IN archive_duplicates(archive_page(W, p, W.notion[p].todoist_task_id),
                               duplicates \ {p})

\* the wipe: every document of the tasks collection is deleted
clear_all_task_states(W) ==
    Called([W EXCEPT !.tasks = [t \in Tasks |-> NoState]],
           "store.clear_all_task_states", "")

\* the record the rebuild saves for a fetched task and its page
migrated_state(W, t, p, timestamp) ==
    TaskSyncState(p,
        compute_payload_hash(
            map_task_to_todo(W.todoist[t], project_name(W.todoist[t].project_id),
                             timestamp)),
        NoHash, "ok", "migration")

\* the two loops that save the records: of the matched pages, then of the
\* genuinely new pages, each for a task that was fetched
rebuild_task_states(W, v1_tasks, matched_tasks, new_pages, timestamp) ==
    LET of_match(t) == {m.notion_page_id : m \in {x \in matched_tasks : x.new_id = t}}
        of_new(t) == {p \in new_pages : W.notion[p].todoist_task_id = t}
        saved == {t \in v1_tasks : of_match(t) \cup of_new(t) # {}}
    IN [W EXCEPT
           !.tasks = [t \in Tasks |->
                         IF t \notin saved THEN W.tasks[t]
                         ELSE migrated_state(W, t,
                                  CHOOSE p \in (IF of_match(t) # {} THEN of_match(t)
                                                ELSE of_new(t)) : TRUE,
                                  timestamp)],
           !.log = @ \cup {<<"store.save_task_state", t>> : t \in saved}]

\* pages.update of the Todoist Project ID of the matched project pages, and
\* their records
migrate_projects(W, matched_projects) ==
    [W EXCEPT
        !.projects = @ \cup matched_projects,
        !.log = @ \cup {<<"notion.update_todoist_project_id", pid>> : pid \in matched_projects}
                  \cup {<<"store.save_project_state", pid>> : pid \in matched_projects}]

\* _execute_migration; the projects are saved after the tasks, and the two
\* touch different documents
execute_migration(W, v1_tasks, matched_tasks, matched_projects, duplicates, new_pages, timestamp) ==
    rebuild_task_states(
        clear_all_task_states(
            migrate_projects(
                archive_duplicates(update_todoist_task_ids(W, matched_tasks), duplicates),
                matched_projects)),
        v1_tasks, matched_tasks, new_pages, timestamp)

\* the plan of a migration: what run_v1_id_migration computes before the
\* dry_run check
migration_plan(W, v1_tasks, old_id_pages, new_id_pages) ==
    LET matched_tasks == match_tasks(W, v1_tasks, old_id_pages)
        duplicates == duplicate_new_pages(W, matched_tasks, new_id_pages)
    IN [v1_tasks |-> v1_tasks, matched_tasks |-> matched_tasks,
        duplicates |-> duplicates,
        new_pages |-> genuinely_new_pages(W, matched_tasks, duplicates, new_id_pages),
        matched_projects |-> match_projects(W)]

\* a migration that executes whatever dry_run says
run_plan_always(W, plan, dry_run, timestamp) ==
    execute_migration(W, plan.v1_tasks, plan.matched_tasks, plan.matched_projects,
                      plan.duplicates, plan.new_pages, timestamp)

\* `if dry_run: ... return summary`, and _execute_migration otherwise
run_plan(W, plan, dry_run, timestamp) ==
    IF dry_run THEN W
    ELSE execute_migration(W, plan.v1_tasks, plan.matched_tasks, plan.matched_projects,
                           plan.duplicates, plan.new_pages, timestamp)

\* [w, plan, status]: the world after the migration, its plan and the
\* status of the summary
run_v1_id_migration(W, dry_run, timestamp) ==
    LET notion_pages == get_all_task_pages(W)
        plan == migration_plan(W, get_active_tasks_with_label(W),
                    {p \in notion_pages : /\ W.notion[p].todoist_task_id # ""
                                          /\ ~is_v1_id(W.notion[p].todoist_task_id)},
                    {p \in notion_pages : is_v1_id(W.notion[p].todoist_task_id)})
    IN [w |-> run_plan(W, plan, dry_run, timestamp), plan |-> plan,
        status |-> IF dry_run THEN "dry_run" ELSE "executed"]

(***************************************************************************)
(* app/main.py: the HTTP endpoints.  Each operator answers the status code *)
(* of the response together with what the request did.                     *)
(***************************************************************************)
\* POST /todoist/webhook with a payload that parses as a TodoistWebhookEvent;
\* signature_ok is the outcome of _verify_webhook_signature.  task_id is
\* event_data.get("id"), "" when event_data carries none.
todoist_webhook(q, signature_ok, event_name, task_id, event_data) ==
    IF ~signature_ok
    THEN [queue |-> q, http |-> 401, answer |-> "unauthorized"]
    ELSE [queue |-> handle_event(q, event_name, task_id, event_data),
          http |-> 200,
          answer |-> IF task_id = "" \/ determine_action(event_name) = "ignore"
                     THEN "ignored" ELSE "queued"]

\* The body of a push request: has_message says that the envelope has the
\* "message" field, base64_ok and json_ok that its data decodes, and
\* message_json is the decoded object.
PushBody(has_message, base64_ok, json_ok, message_json) ==
    [has_message |-> has_message, base64_ok |-> base64_ok, json_ok |-> json_ok,
     message_json |-> message_json]

\* PubSubMessage(**message_json) validates: action is a SyncAction and
\* todoist_task_id is present
is_valid_job(message_json) ==
    /\ message_json.action \in {"UPSERT", "ARCHIVE"}
    /\ message_json.todoist_task_id # NoId

\* POST /pubsub/process.  Only the missing "message" field raises the
\* HTTPException(400) that is re-raised; b64decode, json.loads and the
\* PubSubMessage constructor raise other exceptions, which the handler
\* answers with 500, as it does an exception out of worker.process_message.
\* the answer once worker.process_message has returned or raised
pubsub_answer(W1) == [w |-> W1, http |-> IF W1.raised THEN 500 ELSE 200]

process_pubsub(W, body, timestamp, reject) ==
    IF ~body.has_message THEN [w |-> W, http |-> 400]
    ELSE IF ~body.base64_ok \/ ~body.json_ok \/ ~is_valid_job(body.message_json)
    THEN [w |-> W, http |-> 500]
    ELSE pubsub_answer(
             process_message(W, body.message_json, "webhook", timestamp, reject))

\* The Authorization header as <<scheme, token>>, <<>> when there is none.
\* Tokens that begin with "eyJ" are taken for OIDC tokens.
internal_cron_token == "cron-token"
starts_with_eyJ(token) == token \in {"eyJ-signed", "eyJ-forged"}

\* _verify_oidc_token: the signature and the audience check out
verify_oidc_token(token) == token = "eyJ-signed"

\* is_valid of POST /reconcile
is_valid_authorization(authorization) ==
    IF authorization = <<>> THEN FALSE
    ELSE IF authorization[1] = "Bearer" /\ starts_with_eyJ(authorization[2])
    THEN verify_oidc_token(authorization[2])
    ELSE authorization = <<"Bearer", internal_cron_token>>

\* POST /reconcile: [ran, R, http]; R is the run of ReconcileHandler.reconcile
\* the answer once reconcile_handler.reconcile has returned or raised
reconcile_answer(R) ==
    [ran |-> TRUE, R |-> R, http |-> IF R.done.raised THEN 500 ELSE 200]

post_reconcile(W, authorization, timestamp, reject, completed_fail, with_archived) ==
    IF ~is_valid_authorization(authorization)
    THEN [ran |-> FALSE, R |-> [labelled |-> W, swept |-> W, pulled |-> W, done |-> W], http |-> 401]
    ELSE reconcile_answer(reconcile(W, timestamp, reject, completed_fail, with_archived))

\* GET /test/reconcile: runs the reconciler; it reads no header
test_reconcile(W, timestamp, reject, completed_fail, with_archived) ==
    [ran |-> TRUE,
     R |-> reconcile(W, timestamp, reject, completed_fail, with_archived),
     http |-> 200]

(***************************************************************************)
(* The record of the last handler run: what the worker saw, what the store *)
(* held before, and the calls the run made.  It is history, not program    *)
(* state; the properties below are stated over it.                         *)
(***************************************************************************)
NoRun ==
    [op |-> "none", action |-> "", task_id |-> "", exists |-> FALSE,
     tagged |-> FALSE, checked |-> FALSE, inbox |-> FALSE,
     had_record |-> FALSE, had_page |-> FALSE, clean |-> FALSE,
     repeat |-> FALSE, step |-> 0, echo |-> {}, failed |-> FALSE,
     sink_title |-> "", second |-> FALSE, fresh |-> FALSE, unsynced |-> {},
     inbox_tasks |-> {}, log |-> {},
     request |-> "", authorized |-> FALSE, http |-> 0, answer |-> "", enqueued |-> <<>>,
     idless |-> {}, creatable |-> {}, planned |-> {}, retry |-> "",
     fetched |-> {}, made |-> {}, unpulled |-> {}]

\* the reverse fingerprint of a page as it is: the hash of the JSON text of
\* its completed flag, its due date, its priority (the number in the select
\* option "P1".."P4") and its title
PageFingerprint(page) ==
    <<"sha256",
      "{\"completed\": " \o (IF page.completed THEN "true" ELSE "false")
      \o ", \"due_date\": "
      \o (IF page.due = NoDue THEN "null" ELSE "\"" \o page.due \o "\"")
      \o ", \"priority\": "
      \o ToString(CHOOSE n \in 1..4 : page.priority = "P" \o ToString(n))
      \o ", \"title\": \"" \o page.title \o "\"}">>

\* the vocabulary of the properties, read off the Source itself
SyncTagged(task) == "capsync" \in task.labels \/ "@capsync" \in task.labels
InInbox(task) == task.exists /\ project_name(task.project_id) = "Inbox"

\* a worker UPSERT of a tagged task outside the Inbox that ended in the
\* `except` of process_message: its page create or update failed
SinkWriteFailed(run) ==
    /\ run.op = "worker" /\ run.action = "UPSERT"
    /\ run.exists /\ run.tagged /\ ~run.inbox
    /\ <<"worker.error", run.task_id>> \in run.log
    /\ <<"notion.create_todo_page", run.task_id>> \notin run.log
    /\ <<"notion.update_todo_page", run.task_id>> \notin run.log

\* a worker UPSERT that created the page of a task and ended in the `except`
\* of process_message: the record was not saved
CreatedUnsaved(run) ==
    /\ run.op = "worker" /\ run.action = "UPSERT"
    /\ <<"notion.create_todo_page", run.task_id>> \in run.log
    /\ <<"worker.error", run.task_id>> \in run.log

\* a run of the worker on `message` from world W that ended in world W1
RunOf(message, W, W1) ==
    LET t == message.todoist_task_id
        upsert == message.action = "UPSERT"
        seen == IF upsert THEN task_seen(W, message) ELSE NoTask
        inbox == IF upsert THEN InInbox(seen) ELSE InInbox(W.todoist[t])
        tagged == SyncTagged(seen)
        clean == /\ upsert /\ seen.exists /\ tagged /\ ~inbox
                 /\ <<"worker.error", t>> \notin W1.log
        follows == last.op = "worker" /\ last.task_id = t
    IN [op |-> "worker", action |-> message.action, task_id |-> t,
        exists |-> seen.exists, tagged |-> tagged, checked |-> seen.checked,
        inbox |-> inbox,
        had_record |-> W.tasks[t].exists,
        had_page |-> W.tasks[t].exists /\ W.tasks[t].capacities_object_id # NoId,
        clean |-> clean,
        repeat |-> clean /\ follows /\ last.clean,
        step |-> IF clean /\ ~W.tasks[t].exists
                       /\ <<"notion.create_todo_page", t>> \in W1.log THEN 1
                 ELSE IF ~upsert /\ follows /\ last.step = 1 THEN 2
                 ELSE IF upsert /\ seen.exists /\ tagged /\ ~inbox
                         /\ follows /\ last.step = 2 THEN 3
                 ELSE 0,
        echo |-> {}, failed |-> W1.raised, sink_title |-> "", second |-> FALSE,
        fresh |-> upsert /\ seen = W.todoist[t], unsynced |-> {}, inbox_tasks |-> {},
        log |-> W1.log,
        request |-> "", authorized |-> FALSE, http |-> 0, answer |-> "", enqueued |-> <<>>,
        idless |-> {}, creatable |-> {}, planned |-> {},
        retry |-> IF upsert /\ follows /\ last.fresh /\ seen = W.todoist[t]
                  THEN IF SinkWriteFailed(last) THEN "sink"
                       ELSE IF CreatedUnsaved(last) THEN "store" ELSE ""
                  ELSE "",
        fetched |-> {}, made |-> {}, unpulled |-> last.unpulled]

\* the Source writes of the reverse sweep
SourceWrites(t) ==
    {<<"todoist.update_task", t>>, <<"todoist.complete_task", t>>,
     <<"todoist.uncomplete_task", t>>}

\* the Sink writes made for a task page
SinkWrites(t) ==
    {<<"notion.create_todo_page", t>>, <<"notion.update_todo_page", t>>,
     <<"notion.archive_page", t>>}

\* the Sink writes that mirror a task: its page created or updated
SinkUpserts(t) ==
    {<<"notion.create_todo_page", t>>, <<"notion.update_todo_page", t>>}

\* the names of all the Sink writes of the model
NotionWriteCalls ==
    {"notion.create_todo_page", "notion.update_todo_page", "notion.archive_page",
     "notion.create_project_page", "notion.update_project_page"}

\* task t is mirrored on page p and the two agree
InSync(t, p) ==
    /\ todoist[t].exists
    /\ SyncTagged(todoist[t])
    /\ ~InInbox(todoist[t])
    /\ tasks_store[t].exists
    /\ tasks_store[t].sync_status = "ok"
    /\ tasks_store[t].capacities_object_id = p
    /\ notion[p].exists /\ ~notion[p].archived
    /\ notion[p].todoist_task_id = t
    /\ notion_props_differ(extract_notion_task_properties(notion[p]),
                           todoist[t].content, todoist[t].priority,
                           due_date_of(todoist[t]), todoist[t].checked) = {}

\* a task page the create-from-Sink step is to make a task for: no task id, a
\* title, not archived, and a project relation to the page of a project
\* that has a stored record
Creatable(page, project_states) ==
    /\ page.exists /\ page.todoist_task_id = ""
    /\ page.title # "" /\ ~page.archived
    /\ \E pid \in project_states : page.project = project_page_id(pid)

\* a reconcile run R (the worlds of reconcile) from the current state
ReconcileRun(R, completed_fail, with_archived) ==
    LET after_edit == last.op = "sink_edit" /\ last.sink_title # ""
        edited_pages == IF get_last_reconcile_time(R.swept)
                        THEN get_tasks_edited_since(R.swept, with_archived) ELSE {}
    IN [NoRun EXCEPT
           !.op = "reconcile",
           !.task_id = IF after_edit THEN last.task_id ELSE "",
           !.sink_title = IF after_edit THEN last.sink_title ELSE "",
           !.second = last.op = "reconcile" /\ last.sink_title # "" /\ ~last.failed,
           !.failed = completed_fail
                      \/ \E t \in Tasks : <<"worker.error", t>> \in R.done.log,
           !.unsynced = {t \in Tasks : /\ R.labelled.todoist[t].exists
                                        /\ ~SyncTagged(R.labelled.todoist[t])
                                        /\ ~R.labelled.tasks[t].exists},
           !.inbox_tasks = {t \in Tasks : InInbox(todoist[t])},
           !.echo = {R.swept.notion[p].todoist_task_id :
                        p \in {q \in edited_pages :
                                  R.swept.notion[q].written_by = "upsert"}},
           !.idless = {p \in PageIds : /\ R.pulled.notion[p].exists
                                         /\ R.pulled.notion[p].todoist_task_id = ""},
           !.creatable = {p \in PageIds : Creatable(R.pulled.notion[p], R.pulled.projects)},
           !.made = (IF last.op = "reconcile" THEN last.made ELSE {})
                    \cup {pt \in PageIds \X Tasks :
                            <<"log.created_from_notion." \o pt[1], pt[2]>> \in R.done.log},
           !.fetched = {t \in Tasks : /\ R.labelled.todoist[t].exists
                                       /\ SyncTagged(R.labelled.todoist[t])
                                       /\ (R.labelled.todoist[t].checked
                                              => ~completed_fail)},
           !.log = R.done.log]

\* get_current_timestamp is the clock read to the microsecond: the value a
\* run takes is later than every value taken before it.  A timestamp kept
\* inside a stored fingerprint is therefore "earlier" for every later run.
aged(hash) ==
    IF hash = NoHash THEN hash
    ELSE [hash EXCEPT ![10] = "earlier", ![11] = "earlier"]

Commit(W) ==
    /\ todoist' = W.todoist
    /\ notion' = W.notion
    /\ notion_projects' = W.notion_projects
    /\ tasks_store' = [t \in Tasks |-> [W.tasks[t] EXCEPT !.payload_hash = aged(@)]]
    /\ projects_store' = W.projects
    /\ last_reconcile' = W.cursor

\* The outcomes of the services that a run cannot control.  Each is drawn
\* only in the states where it makes a difference to the run.
\* the Sink may refuse the update of an archived page, and the creation of
\* the page of a task that has no record yet; the store may fail to save the
\* first record of a task
Rejects ==
    {"no"}
    \cup (IF \/ \E p \in PageIds : notion[p].exists /\ notion[p].archived
             \/ \E t \in Tasks : todoist[t].exists /\ ~tasks_store[t].exists
          THEN {"sink"} ELSE {})
    \cup (IF \E t \in Tasks : todoist[t].exists /\ ~tasks_store[t].exists
          THEN {"store"} ELSE {})

\* the query for the completed tasks may fail
CompletedFails ==
    IF \E t \in Tasks : todoist[t].exists /\ todoist[t].checked
    THEN BOOLEAN ELSE {FALSE}

\* the edited-since query may or may not return archived pages
WithArchived ==
    IF \E p \in PageIds : notion[p].exists /\ notion[p].archived /\ notion[p].edited
    THEN BOOLEAN ELSE {FALSE}

(***************************************************************************)
(* The users of the two services.                                          *)
(***************************************************************************)
\* the Source user changes one field of a task
SourceEdits(task) ==
    ({[task EXCEPT !.content = c] : c \in Titles}
     \cup {[task EXCEPT !.labels = l] : l \in {{}, {"capsync"}}}
     \cup {[task EXCEPT !.project_id = p] : p \in ProjectIds}
     \cup {[task EXCEPT !.checked = ~@]}) \ {task}

SourceEdit(t) ==
    /\ todoist[t].exists
    /\ \E new \in SourceEdits(todoist[t]) : todoist' = [todoist EXCEPT ![t] = new]
    /\ last' = NoRun
    /\ UNCHANGED <<notion, notion_projects, tasks_store, projects_store,
                   last_reconcile, queue, unacked, inflight>>

SourceDelete(t) ==
    /\ todoist[t].exists
    /\ todoist' = [todoist EXCEPT ![t] = NoTask]
    /\ last' = NoRun
    /\ UNCHANGED <<notion, notion_projects, tasks_store, projects_store,
                   last_reconcile, queue, unacked, inflight>>

\* the Sink user retitles a task page; the run record keeps the new title
\* when the cursor is set and the page agreed with its task before the edit
SinkEdit(p) ==
    /\ notion[p].exists
    /\ ~notion[p].archived
    /\ \E title \in Titles \ {notion[p].title} :
          /\ notion' = [notion EXCEPT ![p].title = title, ![p].edited = TRUE,
                                      ![p].written_by = "user"]
          /\ last' = [NoRun EXCEPT
                         !.op = "sink_edit",
                         !.unpulled = {e \in last.unpulled : e[1] # p},
                         !.task_id = notion[p].todoist_task_id,
                         !.sink_title =
                             IF last_reconcile /\ notion[p].todoist_task_id \in Tasks
                                /\ InSync(notion[p].todoist_task_id, p)
                             THEN title ELSE ""]
    /\ UNCHANGED <<todoist, notion_projects, tasks_store, projects_store,
                   last_reconcile, queue, unacked, inflight>>

(***************************************************************************)
(* app/main.py: process_pubsub, the push endpoint of the queue.  In Spec   *)
(* a job is pushed as soon as it is published, so its snapshot, when it    *)
(* has one, is the task as it is; SpecQueue below keeps the jobs queued.   *)
(***************************************************************************)
Jobs(t) ==
    {PubSubMessage("UPSERT", t, "bad", NoTask),
     PubSubMessage("ARCHIVE", t, "none", NoTask)}
    \cup (IF todoist[t].exists
          THEN {PubSubMessage("UPSERT", t, "ok", todoist[t])}
          ELSE {PubSubMessage("UPSERT", t, "none", NoTask)})

ProcessPubsub(message, reject) ==
    /\ \E W1 \in {process_message(World, message, "webhook", get_current_timestamp,
                                  reject)} :
          /\ Commit(W1)
          /\ last' = RunOf(message, World, W1)
    /\ UNCHANGED <<queue, unacked, inflight>>

\* POST /reconcile: one whole run of ReconcileHandler.reconcile
Reconcile(reject, completed_fail, with_archived) ==
    /\ \E R \in {reconcile(World, get_current_timestamp, reject, completed_fail,
                            with_archived)} :
          /\ Commit(R.done)
          /\ last' = ReconcileRun(R, completed_fail, with_archived)
    /\ UNCHANGED <<queue, unacked, inflight>>

Init ==
    /\ \E p \in ProjectIds, l \in {{}, {"capsync"}} :
          todoist = [t \in Tasks |-> IF t \in UserTasks
                                     THEN TodoistTask("a", "", p, l, 1, NoDue, FALSE)
                                     ELSE NoTask]
    /\ notion = [p \in PageIds |-> NoPage]
    /\ notion_projects = {}
    /\ tasks_store = [t \in Tasks |-> NoState]
    /\ projects_store = {}
    /\ last_reconcile = FALSE
    /\ queue = <<>>
    /\ unacked = {}
    /\ inflight = [s \in Slots |-> Idle]
    /\ last = NoRun

Next ==
    \/ \E t \in UserTasks : SourceEdit(t)
    \/ \E t \in UserTasks : SourceDelete(t)
    \/ \E p \in PageIds : SinkEdit(p)
    \/ \E reject \in Rejects, completed_fail \in CompletedFails,
          with_archived \in WithArchived :
           Reconcile(reject, completed_fail, with_archived)
    \/ \E t \in UserTasks, reject \in Rejects : \E message \in Jobs(t) :
           ProcessPubsub(message, reject)

Spec == Init /\ [][Next]_vars

(***************************************************************************)
(* SpecQueue: the webhook ingester publishes a job for every change of the *)
(* Source, the queue pushes the jobs in order, and a job whose             *)
(* acknowledgement is lost is pushed again later (at-least-once).          *)
(***************************************************************************)
\* the changes of the Source that reach the ingester, with their event names
QueueEdits(task) ==
    {<<"item:updated", [task EXCEPT !.content = c]>> : c \in Titles \ {task.content}}
    \cup {<<IF task.checked THEN "item:uncompleted" ELSE "item:completed",
            [task EXCEPT !.checked = ~@]>>}
    \cup {<<"item:deleted", NoTask>>}

\* POST /todoist/webhook: the Source changes and the ingester handles the event
TodoistWebhook(t) ==
    /\ todoist[t].exists
    /\ Len(queue) < MaxQueue
    /\ \E e \in QueueEdits(todoist[t]) :
          /\ todoist' = [todoist EXCEPT ![t] = e[2]]
          /\ queue' = handle_event(queue, e[1], t, e[2])
    /\ last' = NoRun
    /\ UNCHANGED <<notion, notion_projects, tasks_store, projects_store,
                   last_reconcile, unacked, inflight>>

\* the queue pushes its first job; ack: the answer reaches the queue
Deliver(ack, reject) ==
    /\ queue # <<>>
    /\ ack \/ Cardinality(unacked) < MaxUnacked
    /\ LET message == Head(queue)
           W1 == process_message(World, message, "webhook", get_current_timestamp,
                                 reject)
       IN /\ Commit(W1)
          /\ last' = RunOf(message, World, W1)
          /\ unacked' = IF ack THEN unacked ELSE unacked \cup {message}
    /\ queue' = Tail(queue)
    /\ UNCHANGED inflight

\* the queue pushes again a job it holds unacknowledged
Redeliver(message, reject) ==
    /\ message \in unacked
    /\ LET W1 == process_message(World, message, "webhook", get_current_timestamp,
                                 reject)
       IN /\ Commit(W1)
          /\ last' = RunOf(message, World, W1)
    /\ unacked' = unacked \ {message}
    /\ UNCHANGED <<queue, inflight>>

InitQueue ==
    /\ Init
    /\ \A t \in UserTasks : SyncTagged(todoist[t]) /\ ~InInbox(todoist[t])

NextQueue ==
    \/ \E t \in UserTasks : TodoistWebhook(t)
    \/ \E ack \in BOOLEAN, reject \in Rejects : Deliver(ack, reject)
    \/ \E message \in unacked, reject \in Rejects : Redeliver(message, reject)

SpecQueue == InitQueue /\ [][NextQueue]_vars

(***************************************************************************)
(* SpecConc: the service handles several requests at a time.  A push of    *)
(* the queue and a call of the worker by the reconciler's forward sweep    *)
(* begin, are in flight, and finish; nothing in process_pubsub or in       *)
(* reconcile waits for another operation on the same task.                 *)
(***************************************************************************)
\* the Source user retitles a task
SourceRetitle(t) ==
    /\ todoist[t].exists
    /\ \E c \in Titles \ {todoist[t].content} :
          todoist' = [todoist EXCEPT ![t].content = c]
    /\ last' = NoRun
    /\ UNCHANGED <<notion, notion_projects, tasks_store, projects_store,
                   last_reconcile, queue, unacked, inflight>>

\* the jobs pushed in SpecConc: they carry no snapshot
ConcJobs(t) ==
    {PubSubMessage("UPSERT", t, "none", NoTask),
     PubSubMessage("ARCHIVE", t, "none", NoTask)}

\* process_pubsub is entered with a job the queue pushes; the queue is
\* granted its contract: it pushes no job of a task while one is being handled
PushBegin(slot, message) ==
    /\ ~inflight[slot].busy
    /\ \A s \in Slots :
          ~(/\ inflight[s].busy /\ inflight[s].origin = "webhook"
            /\ inflight[s].message.todoist_task_id = message.todoist_task_id)
    /\ inflight' = [inflight EXCEPT
                       ![slot] = [busy |-> TRUE, origin |-> "webhook", message |-> message,
                                  held |-> NoHeld]]
    /\ UNCHANGED <<todoist, notion, notion_projects, tasks_store, projects_store,
                   last_reconcile, queue, unacked, last>>

\* the forward sweep of a reconcile run calls the worker for a fetched task;
\* the sweep itself is sequential
SweepBegin(slot, t) ==
    /\ ~inflight[slot].busy
    /\ \A s \in Slots : ~(inflight[s].busy /\ inflight[s].origin = "reconciliation")
    /\ t \in get_active_tasks_with_label(World) \cup get_completed_tasks_with_label(World)
    /\ inflight' = [inflight EXCEPT
                       ![slot] = [busy |-> TRUE, origin |-> "reconciliation",
                                  message |-> PubSubMessage("UPSERT", t, "ok", todoist[t]),
                                  held |-> NoHeld]]
    /\ UNCHANGED <<todoist, notion, notion_projects, tasks_store, projects_store,
                   last_reconcile, queue, unacked, last>>

\* the operation in the slot runs to its end
Finish(slot, reject) ==
    /\ inflight[slot].busy
    /\ ~inflight[slot].held.go
    /\ LET message == inflight[slot].message
           W1 == process_message(World, message, inflight[slot].origin,
                                 get_current_timestamp, reject)
       IN /\ Commit(W1)
          /\ last' = RunOf(message, World, W1)
    /\ inflight' = [inflight EXCEPT ![slot] = Idle]
    /\ UNCHANGED <<queue, unacked>>

InitConc == InitQueue

NextConc ==
    \/ \E t \in UserTasks : SourceRetitle(t)
    \/ \E slot \in Slots, t \in UserTasks : \E message \in ConcJobs(t) :
           PushBegin(slot, message)
    \/ \E slot \in Slots, t \in UserTasks : SweepBegin(slot, t)
    \/ \E slot \in Slots, reject \in Rejects : Finish(slot, reject)

SpecConc == InitConc /\ [][NextConc]_vars

(***************************************************************************)
(* SpecRace: SpecConc with the worker's UPSERT in two steps.  The worker   *)
(* awaits the Sink and the store at every call, so between the reads that  *)
(* settle the page (the record, the query by task id, the second read of   *)
(* the record) and the create or update of the page, the other request in  *)
(* flight may run.                                                         *)
(***************************************************************************)
\* an UPSERT in flight runs up to the second read of the record; the step is
\* taken by the runs that go on to write the page
Resolve(slot) ==
    /\ inflight[slot].busy
    /\ inflight[slot].message.action = "UPSERT"
    /\ ~inflight[slot].held.go
    /\ \E task \in {task_seen(World, inflight[slot].message)} :
          /\ task.exists
          /\ has_capsync_label(task.labels)
          /\ \E r \in {upsert_resolve(World, task, inflight[slot].message.todoist_task_id,
                                       tasks_store[inflight[slot].message.todoist_task_id],
                                       get_current_timestamp)} :
                /\ r.go
                /\ Commit(r.w)
                /\ inflight' = [inflight EXCEPT
                                   ![slot].held = [go |-> TRUE, page |-> r.page,
                                                   project |-> r.project, task |-> task,
                                                   seen |-> NoSeen]]
    /\ last' = NoRun
    /\ UNCHANGED <<queue, unacked>>

\* the UPSERT goes on from the page it settled on: update or create, record,
\* backlink, and the except of process_message
Write(slot, reject) ==
    /\ inflight[slot].busy
    /\ inflight[slot].held.go
    /\ \E W1 \in {process_message_except(
                      upsert_write(World, inflight[slot].held.task,
                                   inflight[slot].message.todoist_task_id,
                                   inflight[slot].held.page, inflight[slot].held.project,
                                   inflight[slot].origin, get_current_timestamp, reject),
                      inflight[slot].message.todoist_task_id)} :
          /\ Commit(W1)
          /\ last' = RunOf(inflight[slot].message, World, W1)
    /\ inflight' = [inflight EXCEPT ![slot] = Idle]
    /\ UNCHANGED <<queue, unacked>>

NextRace ==
    \/ \E t \in UserTasks : SourceRetitle(t)
    \/ \E slot \in Slots, t \in UserTasks : \E message \in ConcJobs(t) :
           PushBegin(slot, message)
    \/ \E slot \in Slots, t \in UserTasks : SweepBegin(slot, t)
    \/ \E slot \in Slots, reject \in Rejects : Finish(slot, reject)
    \/ \E slot \in Slots : Resolve(slot)
    \/ \E slot \in Slots, reject \in Rejects : Write(slot, reject)

SpecRace == InitConc /\ [][NextRace]_vars

(***************************************************************************)
(* SpecHttp: the service as its callers see it.  Requests arrive at the    *)
(* endpoints of app/main.py; the webhook publishes jobs, the queue pushes  *)
(* its first job to /pubsub/process and takes it off when the answer is a  *)
(* success, and anybody can send a request of any shape.                   *)
(***************************************************************************)
EventNames ==
    {"item:added", "item:updated", "item:completed", "item:uncompleted",
     "note:added", "note:updated", "item:deleted", "project:added", "note:deleted"}

Authorizations ==
    {<<>>, <<"Bearer", "cron-token">>, <<"Bearer", "wrong">>, <<"Basic", "cron-token">>,
     <<"Bearer", "eyJ-signed">>, <<"Bearer", "eyJ-forged">>}

\* the credentials the reconcile endpoint is meant to accept
Authorized(authorization) ==
    authorization \in {<<"Bearer", "cron-token">>, <<"Bearer", "eyJ-signed">>}

\* what an event name asks for, as the ingester's contract lists the names
EventClass(event_name) ==
    IF event_name \in {"item:added", "item:updated", "item:completed",
                       "item:uncompleted", "note:added", "note:updated"}
    THEN "UPSERT"
    ELSE IF event_name = "item:deleted" THEN "ARCHIVE" ELSE "other"

\* the push requests that do not carry a job, by what is wrong with them
MalformedBodies ==
    [no_message |-> PushBody(FALSE, FALSE, FALSE, PubSubMessage("", NoId, "none", NoTask)),
     bad_base64 |-> PushBody(TRUE, FALSE, FALSE, PubSubMessage("", NoId, "none", NoTask)),
     bad_json |-> PushBody(TRUE, TRUE, FALSE, PubSubMessage("", NoId, "none", NoTask)),
     bad_action |-> PushBody(TRUE, TRUE, TRUE, PubSubMessage("DELETE", "T1", "none", NoTask)),
     no_task_id |-> PushBody(TRUE, TRUE, TRUE, PubSubMessage("UPSERT", NoId, "none", NoTask))]

\* the webhook caller sends an event about task t, with or without the id
HttpWebhook(signature_ok, event_name, with_id, t) ==
    /\ queue = <<>>
    /\ \E task_id \in {IF with_id THEN t ELSE ""} :
       \E r \in {todoist_webhook(queue, signature_ok, event_name, task_id, todoist[t])} :
          /\ queue' = r.queue
          /\ last' = [NoRun EXCEPT
                         !.op = "webhook",
                         !.request = IF signature_ok THEN EventClass(event_name) ELSE "",
                         !.task_id = IF signature_ok THEN task_id ELSE "",
                         !.http = r.http,
                         !.answer = r.answer,
                         !.enqueued = SubSeq(r.queue, Len(queue) + 1, Len(r.queue))]
    /\ UNCHANGED <<todoist, notion, notion_projects, tasks_store, projects_store,
                   last_reconcile, unacked, inflight>>

\* a push request that carries no job
HttpPubsubMalformed(kind, reject) ==
    /\ \E r \in {process_pubsub(World, MalformedBodies[kind],
                                 get_current_timestamp, reject)} :
          /\ Commit(r.w)
          /\ last' = [NoRun EXCEPT !.op = "pubsub", !.request = kind, !.http = r.http,
                                   !.log = r.w.log]
    /\ UNCHANGED <<queue, unacked, inflight>>

\* the queue pushes its first job and keeps it unless the answer is a success
HttpPubsub(reject) ==
    /\ queue # <<>>
    /\ \E message \in {Head(queue)} :
       \E r \in {process_pubsub(World, PushBody(TRUE, TRUE, TRUE, message),
                                 get_current_timestamp, reject)} :
          /\ Commit(r.w)
          /\ last' = [RunOf(message, World, r.w) EXCEPT
                         !.request = "job", !.http = r.http]
          /\ queue' = IF r.http = 200 THEN Tail(queue) ELSE queue
    /\ UNCHANGED <<unacked, inflight>>

\* the history of a request to one of the two reconcile routes
ReconcileRequest(route, authorization, r, completed_fail, with_archived) ==
    IF r.ran
    THEN [ReconcileRun(r.R, completed_fail, with_archived) EXCEPT
             !.request = route, !.authorized = Authorized(authorization),
             !.http = r.http]
    ELSE [NoRun EXCEPT !.op = "refused", !.request = route,
                       !.authorized = Authorized(authorization), !.http = r.http]

HttpPostReconcile(authorization, reject, completed_fail, with_archived) ==
    /\ \E r \in {post_reconcile(World, authorization, get_current_timestamp, reject,
                                  completed_fail, with_archived)} :
          /\ Commit(r.R.done)
          /\ last' = ReconcileRequest("POST /reconcile", authorization, r,
                                      completed_fail, with_archived)
    /\ UNCHANGED <<queue, unacked, inflight>>

\* a request without credentials to the test route
HttpTestReconcile(reject, completed_fail, with_archived) ==
    /\ \E r \in {test_reconcile(World, get_current_timestamp, reject,
                                  completed_fail, with_archived)} :
          /\ Commit(r.R.done)
          /\ last' = ReconcileRequest("GET /test/reconcile", <<>>, r,
                                      completed_fail, with_archived)
    /\ UNCHANGED <<queue, unacked, inflight>>

InitHttp == InitQueue

NextHttp ==
    \/ \E t \in UserTasks : SourceRetitle(t)
    \/ \E signature_ok, with_id \in BOOLEAN, event_name \in EventNames,
          t \in UserTasks :
           HttpWebhook(signature_ok, event_name, with_id, t)
    \/ \E kind \in DOMAIN MalformedBodies, reject \in Rejects :
           HttpPubsubMalformed(kind, reject)
    \/ \E reject \in Rejects : HttpPubsub(reject)
    \/ \E authorization \in Authorizations, reject \in Rejects,
          completed_fail \in CompletedFails, with_archived \in WithArchived :
           HttpPostReconcile(authorization, reject, completed_fail, with_archived)
    \/ \E reject \in Rejects, completed_fail \in CompletedFails,
          with_archived \in WithArchived :
           HttpTestReconcile(reject, completed_fail, with_archived)

SpecHttp == InitHttp /\ [][NextHttp]_vars

(***************************************************************************)
(* SpecCreate: the Sink user makes task pages of their own, and the        *)
(* reconciler's create-from-Sink step makes Source tasks for them.  The    *)
(* task id of the model is the one the Source hands out next; the project  *)
(* "p1" may have been mirrored already, for a task that is not in the      *)
(* model.                                                                  *)
(***************************************************************************)
\* the Project relation the user can give a page: none, or the page of p1
UserProjects == {NoId, project_page_id("p1")}

\* the Sink user adds a task page; it has no Todoist Task ID.  The Sink gives
\* it the next page id, and the user adds one while the Source of the model
\* has a task id left to hand out
SinkCreate(title, project) ==
    /\ FreePageId(World) # NoId
    /\ FreeTaskId(World) # NoId
    /\ get_tasks_without_todoist_id(World) = {}
    /\ notion' = [notion EXCEPT ![FreePageId(World)] =
                     [NoPage EXCEPT !.exists = TRUE, !.title = title,
                                    !.project = project, !.edited = TRUE,
                                    !.written_by = "user"]]
    /\ last' = NoRun
    /\ UNCHANGED <<todoist, notion_projects, tasks_store, projects_store,
                   last_reconcile, queue, unacked, inflight>>

\* the Sink user moves a task page to the trash
SinkTrash(p) ==
    /\ notion[p].exists
    /\ ~notion[p].archived
    /\ notion' = [notion EXCEPT ![p].archived = TRUE, ![p].edited = TRUE,
                                ![p].written_by = "user"]
    /\ last' = NoRun
    /\ UNCHANGED <<todoist, notion_projects, tasks_store, projects_store,
                   last_reconcile, queue, unacked, inflight>>

InitCreate ==
    /\ todoist = [t \in Tasks |-> NoTask]
    /\ notion = [p \in PageIds |-> NoPage]
    /\ projects_store \in {{}, {"p1"}}
    /\ notion_projects = projects_store
    /\ tasks_store = [t \in Tasks |-> NoState]
    /\ last_reconcile = FALSE
    /\ queue = <<>>
    /\ unacked = {}
    /\ inflight = [s \in Slots |-> Idle]
    /\ last = NoRun

NextCreate ==
    \/ \E title \in Titles \cup {""}, project \in UserProjects :
           SinkCreate(title, project)
    \/ \E p \in PageIds : SinkTrash(p)
    \/ \E p \in PageIds : SinkEdit(p)
    \/ \E t \in Tasks : SourceRetitle(t)
    \/ \E reject \in Rejects, completed_fail \in CompletedFails,
          with_archived \in WithArchived :
           Reconcile(reject, completed_fail, with_archived)

SpecCreate == InitCreate /\ [][NextCreate]_vars

(***************************************************************************)
(* SpecMigrate: the Sink holds a task page from before the change of the   *)
(* Source API, with a task id of the old API; the reconciler and the       *)
(* migration endpoint run in any order.                                    *)
(***************************************************************************)
\* a task page the synchroniser wrote under the old API
LegacyPage(title) ==
    [NoPage EXCEPT !.exists = TRUE, !.title = title, !.todoist_task_id = "101",
                   !.written_by = "upsert"]

\* POST /migrate/v1-ids?dry_run=...
Migrate(dry_run) ==
    /\ \E r \in {run_v1_id_migration(World, dry_run, get_current_timestamp)} :
          /\ Commit(r.w)
          /\ last' = [NoRun EXCEPT
                         !.op = "migration", !.request = r.status,
                         !.planned = {m.notion_page_id : m \in r.plan.matched_tasks}
                                     \cup r.plan.duplicates,
                         !.log = r.w.log]
    /\ UNCHANGED <<queue, unacked, inflight>>

InitMigrate ==
    /\ \E p \in ProjectIds, l \in {{}, {"capsync"}} :
          todoist = [t \in Tasks |-> IF t \in UserTasks
                                     THEN TodoistTask("a", "", p, l, 1, NoDue, FALSE)
                                     ELSE NoTask]
    /\ notion \in {[p \in PageIds |-> IF p = "n1" THEN page ELSE NoPage] :
                       page \in {NoPage} \cup {LegacyPage(title) : title \in Titles}}
    /\ notion_projects = {}
    /\ tasks_store = [t \in Tasks |-> NoState]
    /\ projects_store = {}
    /\ last_reconcile = FALSE
    /\ queue = <<>>
    /\ unacked = {}
    /\ inflight = [s \in Slots |-> Idle]
    /\ last = NoRun

NextMigrate ==
    \/ \E t \in UserTasks : SourceRetitle(t)
    \/ \E reject \in Rejects, completed_fail \in CompletedFails,
          with_archived \in WithArchived :
           Reconcile(reject, completed_fail, with_archived)
    \/ \E dry_run \in BOOLEAN : Migrate(dry_run)

SpecMigrate == InitMigrate /\ [][NextMigrate]_vars

(***************************************************************************)
(* SpecSteps: a reconcile run takes time.  The run is taken in the four    *)
(* stretches between which the users and the event worker can act: up to   *)
(* the two queries of the Source; from the listing of the records to the   *)
(* end of the forward sweep; the edited-since query of the Sink; and from  *)
(* the loop of the reverse sweep to the end.  The run in progress is kept  *)
(* in the slot ReconcileSlot.                                              *)
(***************************************************************************)
ReconcileSlot == 1

\* what a run in progress holds: the ids it fetched and the tasks as they
\* were fetched, the ids to archive, whether the cursor was set when the
\* reverse sweep began, and the edited pages as the query returned them
RunHeld(phase, fetched, snapshot, to_archive, queried, edited_pages, pages) ==
    [busy |-> TRUE, origin |-> "reconcile", message |-> Idle.message, held |-> NoHeld,
     phase |-> phase, fetched |-> fetched, snapshot |-> snapshot,
     to_archive |-> to_archive, queried |-> queried,
     edited_pages |-> edited_pages, pages |-> pages]

\* reconcile up to the queries of the Source
ReconcileFetch(completed_fail) ==
    /\ ~inflight[ReconcileSlot].busy
    /\ \E W1 \in {auto_label_tasks(World)} :
          /\ Commit(W1)
          /\ inflight' = [inflight EXCEPT ![ReconcileSlot] =
                 RunHeld("fetched",
                         get_active_tasks_with_label(W1)
                         \cup (IF completed_fail THEN {}
                               ELSE get_completed_tasks_with_label(W1)),
                         W1.todoist, {}, FALSE, {}, W1.notion)]
          /\ last' = [NoRun EXCEPT !.op = "reconcile_fetch", !.log = W1.log,
                                    !.unpulled = last.unpulled]
    /\ UNCHANGED <<queue, unacked>>

\* reconcile from get_all_task_states to the end of the forward sweep over
\* the snapshots
ReconcileSweep(reject) ==
    /\ inflight[ReconcileSlot].busy
    /\ inflight[ReconcileSlot].origin = "reconcile"
    /\ inflight[ReconcileSlot].phase = "fetched"
    /\ \E run \in {inflight[ReconcileSlot]} :
       \E W2 \in {upsert_loop(World, [World EXCEPT !.todoist = run.snapshot],
                              run.fetched, get_current_timestamp, reject)} :
          /\ Commit(W2)
          /\ inflight' = [inflight EXCEPT ![ReconcileSlot] =
                 RunHeld("swept", run.fetched, run.snapshot,
                         {t \in Tasks : tasks_store[t].exists} \ run.fetched,
                         FALSE, {}, W2.notion)]
          /\ last' = [NoRun EXCEPT !.op = "reconcile_sweep", !.log = W2.log,
                                    !.unpulled = last.unpulled]
    /\ UNCHANGED <<queue, unacked>>

\* the first lines of _sync_notion_to_todoist: the cursor is read and, when
\* it is set, the edited-since query is made
ReconcileQuery(with_archived) ==
    /\ inflight[ReconcileSlot].busy
    /\ inflight[ReconcileSlot].origin = "reconcile"
    /\ inflight[ReconcileSlot].phase = "swept"
    /\ \E run \in {inflight[ReconcileSlot]} :
       \E W3 \in {IF enable_notion_to_todoist /\ ~get_last_reconcile_time(World)
                   THEN set_last_reconcile_time(World) ELSE World} :
          /\ Commit(W3)
          /\ inflight' = [inflight EXCEPT ![ReconcileSlot] =
                 RunHeld("queried", run.fetched, run.snapshot, run.to_archive,
                         enable_notion_to_todoist /\ get_last_reconcile_time(World),
                         IF enable_notion_to_todoist /\ get_last_reconcile_time(World)
                         THEN get_tasks_edited_since(World, with_archived) ELSE {},
                         notion)]
          /\ last' = [NoRun EXCEPT !.op = "reconcile_query", !.log = W3.log,
                                    !.unpulled = last.unpulled]
    /\ UNCHANGED <<queue, unacked>>

\* reconcile from the loop of the reverse sweep to the end: the loop over the
\* pages as the query returned them, the cursor, create-from-Sink and the
\* archive drift
ReconcileFinishWith(failing) ==
    /\ inflight[ReconcileSlot].busy
    /\ inflight[ReconcileSlot].origin = "reconcile"
    /\ inflight[ReconcileSlot].phase = "queried"
    /\ \E run \in {inflight[ReconcileSlot]} :
       \E W1 \in {IF run.queried
                   THEN sync_notion_loop(
                            [World EXCEPT !.failing = failing, !.notion =
                                [p \in PageIds |-> IF p \in run.edited_pages
                                                   THEN run.pages[p] ELSE @[p]]],
                            run.edited_pages, get_current_timestamp)
                   ELSE World} :
       \E W3 \in {IF run.queried
                   THEN set_last_reconcile_time([W1 EXCEPT !.notion = notion])
                   ELSE W1} :
       \E W4 \in {IF enable_notion_task_creation
                   THEN create_todoist_tasks_from_notion(W3, get_current_timestamp)
                   ELSE W3} :
       \E W5 \in {archive_loop(W4, run.to_archive, "no")} :
          /\ Commit(W5)
          /\ last' = [NoRun EXCEPT
                         !.op = "reconcile_finish", !.log = W5.log,
                         !.planned = run.to_archive,
                         !.failed = failing # NoId,
                         !.unpulled =
                             IF failing = NoId THEN {}
                             ELSE last.unpulled \cup
                                  {<<p, run.pages[p].title>> : p \in
                                     {q \in run.edited_pages :
                                        /\ run.pages[q].todoist_task_id = failing
                                        /\ run.pages[q].written_by = "user"
                                        /\ <<"reconcile.pull_error", failing>> \in W5.log}}]
    /\ inflight' = [inflight EXCEPT ![ReconcileSlot] = Idle]
    /\ UNCHANGED <<queue, unacked>>

ReconcileFinish == ReconcileFinishWith(NoId)

\* the Source user tags or untags a task
SourceTag(t) ==
    /\ todoist[t].exists
    /\ todoist' = [todoist EXCEPT ![t].labels = IF @ = {} THEN {"capsync"} ELSE {}]
    /\ last' = NoRun
    /\ UNCHANGED <<notion, notion_projects, tasks_store, projects_store,
                   last_reconcile, queue, unacked, inflight>>

\* the Source user adds a task with the sync tag to a project
SourceAdd(t) ==
    /\ ~todoist[t].exists
    /\ ~tasks_store[t].exists
    /\ \A p \in PageIds : ~(notion[p].exists /\ notion[p].todoist_task_id = t)
    /\ todoist' = [todoist EXCEPT ![t] =
                      TodoistTask("a", "", "p1", {"capsync"}, 1, NoDue, FALSE)]
    /\ last' = NoRun
    /\ UNCHANGED <<notion, notion_projects, tasks_store, projects_store,
                   last_reconcile, queue, unacked, inflight>>

InitSteps ==
    /\ \E task \in {NoTask} \cup {TodoistTask("a", "", "p1", l, 1, NoDue, FALSE) :
                                     l \in {{}, {"capsync"}}} :
          todoist = [t \in Tasks |-> IF t \in UserTasks THEN task ELSE NoTask]
    /\ notion = [p \in PageIds |-> NoPage]
    /\ notion_projects = {}
    /\ tasks_store = [t \in Tasks |-> NoState]
    /\ projects_store = {}
    /\ last_reconcile = FALSE
    /\ queue = <<>>
    /\ unacked = {}
    /\ inflight = [s \in Slots |-> Idle]
    /\ last = NoRun

NextSteps ==
    \/ \E t \in UserTasks : SourceAdd(t)
    \/ \E t \in UserTasks : SourceTag(t)
    \/ \E t \in UserTasks : SourceRetitle(t)
    \/ \E p \in PageIds : SinkEdit(p)
    \/ \E t \in UserTasks, reject \in Rejects : \E message \in ConcJobs(t) :
           ProcessPubsub(message, reject)
    \/ \E completed_fail \in CompletedFails : ReconcileFetch(completed_fail)
    \/ \E reject \in Rejects : ReconcileSweep(reject)
    \/ \E with_archived \in WithArchived : ReconcileQuery(with_archived)
    \/ ReconcileFinish

SpecSteps == InitSteps /\ [][NextSteps]_vars

(***************************************************************************)
(* SpecFaults: Spec with a reconcile run in which a call made for one      *)
(* project can fail.                                                       *)
(***************************************************************************)
ReconcileFailing(reject, completed_fail, with_archived, failing) ==
    /\ \E R \in {reconcile_run(World, get_current_timestamp, reject, completed_fail,
                                with_archived, failing)} :
          /\ Commit(R.done)
          /\ last' = [ReconcileRun(R, completed_fail, with_archived)
                        EXCEPT !.failed = @ \/ R.done.raised]
    /\ UNCHANGED <<queue, unacked, inflight>>

NextFaults ==
    \/ \E t \in UserTasks : SourceEdit(t)
    \/ \E t \in UserTasks : SourceDelete(t)
    \/ \E p \in PageIds : SinkEdit(p)
    \/ \E reject \in Rejects, completed_fail \in CompletedFails,
          with_archived \in WithArchived, failing \in ProjectIds \cup {NoId} :
           ReconcileFailing(reject, completed_fail, with_archived, failing)
    \/ \E t \in UserTasks, reject \in Rejects : \E message \in Jobs(t) :
           ProcessPubsub(message, reject)

SpecFaults == Init /\ [][NextFaults]_vars

(***************************************************************************)
(* SpecCreateFaults: SpecCreate with reconcile runs in which a call of the *)
(* create-from-Sink step can fail for a page.                              *)
(***************************************************************************)
NextCreateFaults ==
    \/ \E title \in Titles, project \in UserProjects : SinkCreate(title, project)
    \/ \E t \in Tasks : SourceRetitle(t)
    \/ \E reject \in Rejects, completed_fail \in CompletedFails,
          with_archived \in WithArchived, failing \in PageIds \cup {NoId, "store"} :
           ReconcileFailing(reject, completed_fail, with_archived, failing)

SpecCreateFaults == InitCreate /\ [][NextCreateFaults]_vars

(***************************************************************************)
(* SpecDue: the due date of a task.  The Source user sets a due date, with *)
(* or without a time of day, or removes it; the Sink user retitles the     *)
(* page; the event worker and the reconcile run, taken in its stretches,   *)
(* mirror the task.                                                        *)
(***************************************************************************)
SourceDue(t, due) ==
    /\ todoist[t].exists
    /\ todoist[t].due # due
    /\ todoist' = [todoist EXCEPT ![t].due = due]
    /\ last' = NoRun
    /\ UNCHANGED <<notion, notion_projects, tasks_store, projects_store,
                   last_reconcile, queue, unacked, inflight>>

InitDue ==
    /\ \E due \in Dues :
          todoist = [t \in Tasks |-> IF t \in UserTasks
                                     THEN TodoistTask("a", "", "p1", {"capsync"}, 1, due,
                                                      FALSE)
                                     ELSE NoTask]
    /\ notion = [p \in PageIds |-> NoPage]
    /\ notion_projects = {}
    /\ tasks_store = [t \in Tasks |-> NoState]
    /\ projects_store = {}
    /\ last_reconcile = FALSE
    /\ queue = <<>>
    /\ unacked = {}
    /\ inflight = [s \in Slots |-> Idle]
    /\ last = NoRun

NextDue ==
    \/ \E t \in UserTasks, due \in Dues : SourceDue(t, due)
    \/ \E p \in PageIds : SinkEdit(p)
    \/ \E t \in UserTasks, reject \in Rejects :
           ProcessPubsub(PubSubMessage("UPSERT", t, "none", NoTask), reject)
    \/ \E completed_fail \in CompletedFails : ReconcileFetch(completed_fail)
    \/ \E reject \in Rejects : ReconcileSweep(reject)
    \/ \E with_archived \in WithArchived : ReconcileQuery(with_archived)
    \/ ReconcileFinish

SpecDue == InitDue /\ [][NextDue]_vars

(***************************************************************************)
(* SpecPull: the reverse sweep with a Source that refuses the update of a  *)
(* task.  The Sink user retitles the page; the event worker and the        *)
(* reconcile run, taken in its stretches, mirror the task.                 *)
(***************************************************************************)
InitPull ==
    /\ todoist = [t \in Tasks |-> IF t \in UserTasks
                                   THEN TodoistTask("a", "", "p1", {"capsync"}, 1, NoDue,
                                                    FALSE)
                                   ELSE NoTask]
    /\ notion = [p \in PageIds |-> NoPage]
    /\ notion_projects = {}
    /\ tasks_store = [t \in Tasks |-> NoState]
    /\ projects_store = {}
    /\ last_reconcile = FALSE
    /\ queue = <<>>
    /\ unacked = {}
    /\ inflight = [s \in Slots |-> Idle]
    /\ last = NoRun

NextPull ==
    \/ \E p \in PageIds : SinkEdit(p)
    \/ \E t \in UserTasks, reject \in Rejects :
           ProcessPubsub(PubSubMessage("UPSERT", t, "none", NoTask), reject)
    \/ \E completed_fail \in CompletedFails : ReconcileFetch(completed_fail)
    \/ \E reject \in Rejects : ReconcileSweep(reject)
    \/ \E with_archived \in WithArchived : ReconcileQuery(with_archived)
    \/ \E failing \in UserTasks \cup {NoId} : ReconcileFinishWith(failing)

SpecPull == InitPull /\ [][NextPull]_vars

(***************************************************************************)
(* SpecArchive: the event worker with a Sink that may refuse to archive a  *)
(* page.  The Source user edits and deletes the task.                      *)
(***************************************************************************)
ProcessPubsubFailing(message, reject, failing) ==
    /\ \E W \in {[World EXCEPT !.failing = failing]} :
       \E W1 \in {process_message(W, message, "webhook", get_current_timestamp,
                                  reject)} :
          /\ Commit(W1)
          /\ last' = RunOf(message, W, W1)
    /\ UNCHANGED <<queue, unacked, inflight>>

NextArchive ==
    \/ \E t \in UserTasks : SourceEdit(t)
    \/ \E t \in UserTasks : SourceDelete(t)
    \/ \E t \in UserTasks, reject \in Rejects, failing \in {NoId, "archive"} :
       \E message \in ConcJobs(t) : ProcessPubsubFailing(message, reject, failing)

SpecArchive == Init /\ [][NextArchive]_vars

(***************************************************************************)
(* SpecLabel: the auto-tag step.  The Source user edits the task, gives it *)
(* a recurring due date or takes the recurrence away between two runs; the *)
(* reconcile run is taken in its stretches, the first of which ends after  *)
(* the auto-tag step and the queries of the Source.                        *)
(***************************************************************************)
SourceRecur(t) ==
    /\ todoist[t].exists
    /\ todoist' = [todoist EXCEPT
                      ![t].is_recurring = ~@,
                      ![t].due = IF todoist[t].is_recurring THEN @
                                 ELSE CHOOSE d \in DueDates : TRUE]
    /\ last' = NoRun
    /\ UNCHANGED <<notion, notion_projects, tasks_store, projects_store,
                   last_reconcile, queue, unacked, inflight>>

\* the user acts between two runs
NextLabel ==
    \/ \E t \in UserTasks : ~inflight[ReconcileSlot].busy /\ SourceEdit(t)
    \/ \E t \in UserTasks : ~inflight[ReconcileSlot].busy /\ SourceRecur(t)
    \/ \E completed_fail \in CompletedFails : ReconcileFetch(completed_fail)
    \/ \E reject \in Rejects : ReconcileSweep(reject)
    \/ \E with_archived \in WithArchived : ReconcileQuery(with_archived)
    \/ ReconcileFinish

SpecLabel == Init /\ [][NextLabel]_vars

(***************************************************************************)
(* Properties.                                                             *)
(***************************************************************************)
\* C1: an UPSERT of a tagged, non-Inbox task that follows an UPSERT of the
\* same task with no outside change in between stops at the fingerprint
\* check: it makes no Sink task-page write and does not save the record.
C1_RepeatedUpsertWritesNothing ==
    last.repeat =>
        /\ last.log \cap SinkWrites(last.task_id) = {}
        /\ <<"store.save_task_state", last.task_id>> \notin last.log

\* C2: a reverse sweep that finds, among the edited pages, a page whose last
\* writer was the forward UPSERT makes no Source write (update, complete or
\* reopen) for the task of that page, whatever the state of the Source task.
C2_EchoMakesNoSourceWrite ==
    last.op = "reconcile" =>
        \A t \in last.echo : last.log \cap SourceWrites(t) = {}

\* C3: once the queue holds no job and no job is unacknowledged, so every
\* delivery of every event has been processed, the Sink page of a task and
\* the forward fingerprint of its record carry the title and the completed
\* flag of the last event, which are those of the Source task.
C3_LastEventWins ==
    (queue = <<>> /\ unacked = {}) =>
        \A t \in Tasks :
            LET state == tasks_store[t]
                page == notion[state.capacities_object_id]
            IN (todoist[t].exists /\ state.exists
                /\ state.capacities_object_id # NoId) =>
                   /\ page.title = todoist[t].content
                   /\ page.completed = todoist[t].checked
                   /\ state.payload_hash[2] = todoist[t].content
                   /\ state.payload_hash[9] = todoist[t].checked

\* C4: no two worker operations are in flight for the same task id.
C4_OneOperationPerTask ==
    \A s1, s2 \in Slots :
        (s1 # s2 /\ inflight[s1].busy /\ inflight[s2].busy) =>
            inflight[s1].message.todoist_task_id # inflight[s2].message.todoist_task_id

\* C5: after UPSERT (from no record), ARCHIVE, UPSERT of a task that did
\* not change in the Source, the record has status OK and a page id, and
\* that page is present and not archived, as after the single UPSERT.
C5_UpsertArchiveUpsert ==
    last.step = 3 =>
        LET state == tasks_store[last.task_id] IN
        /\ state.exists
        /\ state.sync_status = "ok"
        /\ state.capacities_object_id # NoId
        /\ notion[state.capacities_object_id].exists
        /\ ~notion[state.capacities_object_id].archived

\* C6: a reconcile run without failures that follows a user's edit of the
\* title of a synced page (cursor set before the edit) ends with the Source
\* title equal to the edited title; the reconcile run right after it makes
\* no Source update, complete or reopen call.
C6_SinkTitleReachesSource ==
    (last.op = "reconcile" /\ ~last.failed) =>
        /\ last.sink_title # "" => todoist[last.task_id].content = last.sink_title
        /\ last.second => \A t \in Tasks : last.log \cap SourceWrites(t) = {}

\* C7: every record whose status is not ARCHIVED and whose page id is set
\* refers to a Sink page that exists and is not archived.
C7_LiveRecordHasLivePage ==
    \A t \in Tasks :
        LET state == tasks_store[t] IN
        (state.exists /\ state.sync_status # "archived"
         /\ state.capacities_object_id # NoId) =>
            /\ notion[state.capacities_object_id].exists
            /\ ~notion[state.capacities_object_id].archived

\* C8: an UPSERT for a task that has a record with a page id, is not
\* completed and does not carry the sync tag archives the paired Sink page
\* and leaves the record with status ARCHIVED.
C8_Case ==
    /\ last.op = "worker" /\ last.action = "UPSERT"
    /\ last.fresh /\ last.exists
    /\ ~last.tagged /\ ~last.checked /\ last.had_page

C8_UntaggedUpsertArchives ==
    C8_Case =>
        LET state == tasks_store[last.task_id] IN
        /\ <<"notion.archive_page", last.task_id>> \in last.log
        /\ notion[state.capacities_object_id].archived
        /\ state.sync_status = "archived"

C8_Witness == C8_Case /\ <<"log.no_label", last.task_id>> \in last.log

\* C9: an UPSERT for a task without the sync tag and without a record makes
\* no Sink write and creates no record; a reconcile run makes no Sink write
\* for, and creates no record of, a task that is without the tag after the
\* auto-label step and has no record.
C9_Case ==
    /\ last.op = "worker" /\ last.action = "UPSERT"
    /\ last.exists /\ ~last.tagged /\ ~last.had_record

C9_UntaggedNewTaskIgnored ==
    /\ C9_Case =>
          /\ \A call \in last.log : call[1] \notin NotionWriteCalls
          /\ ~tasks_store[last.task_id].exists
    /\ last.op = "reconcile" =>
          \A t \in last.unsynced :
              /\ last.log \cap SinkWrites(t) = {}
              /\ ~tasks_store[t].exists

C9_Witness == C9_Case /\ <<"log.no_label", last.task_id>> \in last.log

C11_WorkerFailureAnswers500 ==
    (last.request = "job" /\ <<"worker.error", last.task_id>> \in last.log)
        => last.http = 500

\* C12: a push request that carries no valid job (no message field, data
\* that does not decode, or an object that is not a job) is answered 400, and
\* status 500 is answered only to a push of a well-formed job.
C12_MalformedAnswers400 ==
    /\ last.op = "pubsub" => last.http = 400
    /\ (last.op \in {"pubsub", "worker"} /\ last.http = 500) => last.request = "job"

\* C13: for an event that reaches the ingester, exactly one job is enqueued,
\* with the action of the event's class and the event's task id, and the
\* answer is "queued", iff the event carries an id and its name is one of the
\* UPSERT or ARCHIVE names; otherwise nothing is enqueued and the answer is
\* "ignored".
C13_OneJobPerRelevantEvent ==
    (last.op = "webhook" /\ last.http = 200) =>
        IF last.task_id # "" /\ last.request \in {"UPSERT", "ARCHIVE"}
        THEN /\ Len(last.enqueued) = 1
             /\ last.enqueued[1].action = last.request
             /\ last.enqueued[1].todoist_task_id = last.task_id
             /\ last.answer = "queued"
             /\ queue = last.enqueued
        ELSE /\ last.enqueued = <<>>
             /\ last.answer = "ignored"
             /\ queue = <<>>

\* a note event with an id was ingested and its UPSERT job is in the queue
C13_Witness ==
    /\ last.op = "webhook" /\ last.request = "UPSERT" /\ last.answer = "queued"
    /\ Len(queue) = 1 /\ queue[1].action = "UPSERT"

\* C14: a reconcile run is started only by a request that presents the
\* configured bearer token or a verified OIDC token, and a request to the
\* reconcile route without such a credential is answered 401.
C14_ReconcileNeedsCredentials ==
    /\ (last.op = "reconcile" /\ last.request # "") => last.authorized
    /\ (last.op = "refused") => (~last.authorized /\ last.http = 401)

C15_WitnessSkipped ==
    /\ last.op = "reconcile" /\ last.idless # {} /\ last.creatable = {}
    /\ \A t \in Tasks : ~todoist[t].exists

\* C16: no step of the worker, of the reconciler or of the two users takes a
\* TaskSyncRecord out of the store: a task that has a record keeps one.
C16_RecordNeverDeleted ==
    [][\A t \in Tasks : tasks_store[t].exists => tasks_store'[t].exists]_vars

\* the worker ran an ARCHIVE for a task that had a record with a page: the
\* page is archived and the record is still there, with the status archived
C16_Witness ==
    /\ last.op = "worker" /\ last.action = "ARCHIVE" /\ last.had_page
    /\ <<"notion.archive_page", last.task_id>> \in last.log
    /\ tasks_store[last.task_id].exists
    /\ tasks_store[last.task_id].sync_status = "archived"

\* C17: a dry run of the ID migration updates and archives no Sink page and
\* writes and deletes nothing in the store: it leaves the Sink, the Source
\* and the store as they were and makes no write call.
C17_DryRunWritesNothing ==
    [][(last'.op = "migration" /\ last'.request = "dry_run")
          => /\ UNCHANGED <<todoist, notion, notion_projects, tasks_store,
                            projects_store, last_reconcile>>
             /\ last'.log = {}]_vars

\* a dry run whose plan had a page to update: the page still has its old id
C17_Witness ==
    /\ last.op = "migration" /\ last.request = "dry_run"
    /\ \E p \in last.planned : notion[p].todoist_task_id \in NumericIds

\* an executed migration gave the legacy page the id of its task
C17_WitnessExecuted ==
    /\ last.op = "migration" /\ last.request = "executed"
    /\ \E p \in last.planned : /\ notion[p].todoist_task_id \in Tasks
                                 /\ notion[p].written_by = "migration"

\* C18: whatever the interleaving of the worker's UPSERTs for a task, pushed
\* by the queue or called by the forward sweep, no two task pages of the Sink
\* carry the same task id.
C18_OnePagePerTask ==
    \A p, q \in PageIds :
        (/\ notion[p].exists /\ notion[q].exists
         /\ notion[p].todoist_task_id \in Tasks
         /\ notion[p].todoist_task_id = notion[q].todoist_task_id) => p = q

\* C19: after a forward UPSERT of the worker that wrote the page of a task
\* and saved its record, the reverse fingerprint of the record is the hash of
\* the title, priority, due date and completed flag of the page as written.
C19_ReverseFingerprintWritten ==
    (/\ last.op = "worker" /\ last.action = "UPSERT"
     /\ last.log \cap SinkUpserts(last.task_id) # {}
     /\ <<"store.save_task_state", last.task_id>> \in last.log
     /\ <<"worker.error", last.task_id>> \notin last.log)
        => /\ tasks_store[last.task_id].capacities_object_id \in PageIds
           /\ tasks_store[last.task_id].notion_payload_hash =
                  PageFingerprint(notion[tasks_store[last.task_id].capacities_object_id])

C20_WitnessNoRecord ==
    /\ last.op = "worker" /\ <<"worker.error", last.task_id>> \in last.log
    /\ ~last.had_record
    /\ ~tasks_store[last.task_id].exists
    /\ \E pid \in ProjectIds : <<"store.save_project_state", pid>> \in last.log

\* C21: in the worker's UPSERT path the record's forward fingerprint and page
\* id change only after the page create or update succeeded: a run whose
\* Sink write failed leaves both as they were, and the UPSERT of the same
\* task state that follows it attempts the Sink write again
C21_FailedWriteKeepsFingerprint ==
    [][(last'.op = "worker" /\ last'.action = "UPSERT") =>
          /\ SinkWriteFailed(last') =>
                /\ tasks_store'[last'.task_id].payload_hash
                      = tasks_store[last'.task_id].payload_hash
                /\ tasks_store'[last'.task_id].capacities_object_id
                      = tasks_store[last'.task_id].capacities_object_id
          /\ last'.retry = "sink" =>
                /\ <<"log.task_unchanged", last'.task_id>> \notin last'.log
                /\ \/ SinkUpserts(last'.task_id) \cap last'.log # {}
                   \/ SinkWriteFailed(last')]_vars

\* a failed page update left a record that has a fingerprint and a page
C21_Witness ==
    /\ SinkWriteFailed(last)
    /\ tasks_store[last.task_id].exists
    /\ tasks_store[last.task_id].payload_hash # NoHash
    /\ tasks_store[last.task_id].capacities_object_id # NoId

\* the UPSERT after a failed one wrote the page
C21_WitnessRetried ==
    /\ last.op = "worker" /\ last.retry = "sink"
    /\ SinkUpserts(last.task_id) \cap last.log # {}

\* C22: a worker run creates a task page only when the record it loaded has
\* no page id and the Sink holds no page with the task's id; so the UPSERT
\* retried after a run that created the page and failed before the record
\* was saved finds that page, updates it and creates no second page
C22_CreateOnlyWithoutPage ==
    [][(last'.op = "worker" /\ last'.action = "UPSERT") =>
          /\ <<"notion.create_todo_page", last'.task_id>> \in last'.log =>
                /\ ~(tasks_store[last'.task_id].exists
                      /\ tasks_store[last'.task_id].capacities_object_id # NoId)
                /\ \A p \in PageIds :
                       ~(notion[p].exists /\ notion[p].todoist_task_id = last'.task_id)
          /\ last'.retry = "store" =>
                /\ <<"notion.create_todo_page", last'.task_id>> \notin last'.log
                /\ <<"notion.update_todo_page", last'.task_id>> \in last'.log
                /\ Cardinality({p \in PageIds :
                                   /\ notion'[p].exists
                                   /\ notion'[p].todoist_task_id = last'.task_id}) = 1]_vars

\* the retry after a page was created and its record not saved: it updated
\* the page and saved the record with that page's id
C22_Witness ==
    /\ last.op = "worker" /\ last.retry = "store"
    /\ <<"notion.update_todo_page", last.task_id>> \in last.log
    /\ tasks_store[last.task_id].exists
    /\ tasks_store[last.task_id].sync_status = "ok"
    /\ notion[tasks_store[last.task_id].capacities_object_id].todoist_task_id
          = last.task_id

\* C23: when a run ends its reverse sweep, the cursor is at the time the
\* sweep started: a page that a user edited after the edited-since query
\* of the sweep is still after the cursor, so the next sweep gets it
C23_CursorAtSweepStart ==
    [][(/\ inflight[ReconcileSlot].busy
        /\ inflight[ReconcileSlot].origin = "reconcile"
        /\ inflight[ReconcileSlot].phase = "queried"
        /\ inflight[ReconcileSlot].queried
        /\ ~inflight'[ReconcileSlot].busy) =>
          \A p \in PageIds :
             (/\ notion[p].exists /\ notion[p].edited
              /\ notion[p].written_by = "user"
              /\ notion[p] # inflight[ReconcileSlot].pages[p])
             => notion'[p].edited]_vars

\* C24: the archive-drift step of a reconcile run archives the page of no
\* task that still exists in the Source with the sync tag, also when the
\* query for the completed tasks failed, and also when the event worker
\* created the record of a task during the run
C24_DriftSparesTaggedTasks ==
    last.op \in {"reconcile", "reconcile_finish"} =>
        \A t \in Tasks :
           (todoist[t].exists /\ SyncTagged(todoist[t]))
           => <<"notion.archive_page", t>> \notin last.log

\* C25: a reconcile run issues an ARCHIVE job for exactly the task ids that
\* had a record when the run listed the records and that are not among the
\* tasks it fetched from the Source (the tagged active tasks and, when that
\* query answered, the tagged completed tasks)
C25_ArchiveStoredNotFetched ==
    [][last'.op = "reconcile" =>
          {t \in Tasks : <<"reconcile.archive_job", t>> \in last'.log}
             = {t \in Tasks : tasks_store[t].exists} \ last'.fetched]_vars

\* a run that issued an ARCHIVE job: the task is gone from the Source
C25_Witness ==
    /\ last.op = "reconcile"
    /\ \E t \in Tasks : /\ <<"reconcile.archive_job", t>> \in last.log
                         /\ ~todoist[t].exists

\* a run that fetched a task with a record and issued no job for it
C25_WitnessFetched ==
    /\ last.op = "reconcile"
    /\ \E t \in last.fetched : /\ tasks_store[t].exists
                                /\ <<"notion.update_todo_page", t>> \in last.log
                                /\ <<"reconcile.archive_job", t>> \notin last.log

\* C26: in every step of a reconcile run that goes over items, the failure
\* of a call made for one item stops neither the other items of the step
\* nor the steps after it: every Source project is looked up, every task
\* fetched reaches the worker, and the reverse sweep moves the cursor
C26_ItemFailureStopsNothing ==
    last.op = "reconcile" =>
        /\ \A project \in ProjectIds :
               <<"notion.find_project_by_todoist_id", project>> \in last.log
        /\ <<"store.set_last_reconcile_time", "">> \in last.log

\* C27: over any number of reconcile runs at most one Source task is made
\* for a task page that had no task id, also when the write-back of the new
\* id to the page or the save of the record failed after the task was made
C27_OneTaskPerPage ==
    last.op = "reconcile" =>
        \A p \in PageIds :
           Cardinality({t \in Tasks : /\ <<p, t>> \in last.made
                                       /\ todoist[t].exists}) <= 1

\* C28: the worker UPSERT of a task that directly follows the end of a
\* reconcile run whose reverse sweep wrote a Sink edit of the task's page to
\* the Source, with no change in between, finds the stored forward
\* fingerprint equal to the one it computes and makes no Sink write
C28_UpsertAfterPullWritesNothing ==
    [][(/\ last.op \in {"reconcile", "reconcile_finish"}
        /\ last'.op = "worker" /\ last'.action = "UPSERT"
        /\ <<"todoist.update_task", last'.task_id>> \in last.log
        /\ last'.fresh /\ last'.exists /\ last'.tagged /\ ~last'.inbox
        /\ tasks_store[last'.task_id].sync_source = "notion-to-todoist"
        /\ tasks_store[last'.task_id].sync_status = "ok"
        /\ \E p \in PageIds : /\ notion[p].exists /\ ~notion[p].archived
                              /\ notion[p].todoist_task_id = last'.task_id
                              /\ notion[p].written_by = "user") =>
          /\ last'.log \cap SinkWrites(last'.task_id) = {}
          /\ <<"log.task_unchanged", last'.task_id>> \in last'.log]_vars

\* C29: after a worker UPSERT that wrote the page of a task (created or
\* updated it) and did not fail, the page's title, priority, due date and
\* completed flag are those of the Source task the run used, whatever
\* changed since the write before, a removed due date included
C29_PageMirrorsTask ==
    (/\ last.op = "worker" /\ last.action = "UPSERT" /\ last.clean /\ last.fresh
     /\ SinkUpserts(last.task_id) \cap last.log # {}) =>
        \E p \in {tasks_store[last.task_id].capacities_object_id} :
           /\ notion[p].title = todoist[last.task_id].content
           /\ notion[p].priority = "P" \o ToString(todoist[last.task_id].priority)
           /\ notion[p].completed = todoist[last.task_id].checked
           /\ notion[p].due = due_date_of(todoist[last.task_id])

\* C30: a reverse pull of a page whose user edited the title only (priority,
\* due day and completed flag of the page are those of the Source task) leaves
\* the Source task's priority, due value and completed flag as they were, a
\* due value with a time of day included
C30_PullKeepsUneditedFields ==
    [][\A t \in Tasks :
          (/\ last'.op = "reconcile_finish"
           /\ <<"todoist.update_task", t>> \in last'.log
           /\ todoist[t].exists
           /\ tasks_store[t].exists
           /\ \E p \in PageIds :
                 /\ tasks_store[t].capacities_object_id = p
                 /\ p \in inflight[ReconcileSlot].edited_pages
                 /\ inflight[ReconcileSlot].pages[p] = notion[p]
                 /\ notion[p].exists /\ ~notion[p].archived
                 /\ notion[p].written_by = "user"
                 /\ notion[p].todoist_task_id = t
                 /\ notion[p].priority = priority_select(todoist[t].priority)
                 /\ notion[p].due = due_date_of(todoist[t])
                 /\ notion[p].completed = todoist[t].checked) =>
             /\ todoist'[t].priority = todoist[t].priority
             /\ todoist'[t].due = todoist[t].due
             /\ todoist'[t].checked = todoist[t].checked]_vars

\* C31: when the Source refused the edit of a page during a reverse sweep and
\* the Sink user has not edited the page again, the reverse sweep of a later
\* run that meets no failure applies that edit: the Source task then has the
\* title the user gave the page
C31_FailedPullIsRetried ==
    [][\A e \in last.unpulled :
          (/\ last'.op = "reconcile_finish"
           /\ ~last'.failed
           /\ inflight[ReconcileSlot].queried
           /\ notion[e[1]].todoist_task_id \in Tasks
           /\ todoist[notion[e[1]].todoist_task_id].exists) =>
             todoist'[notion[e[1]].todoist_task_id].content = e[2]]_vars

TookArchivePath(run) ==
    /\ run.op = "worker"
    /\ \/ run.action = "ARCHIVE"
       \/ /\ run.action = "UPSERT" /\ run.exists /\ ~run.tagged
          /\ ~(run.checked /\ run.had_record)

\* C33: a run on the ARCHIVE path that found a record with a page id leaves
\* the record in status ARCHIVED and reports no error, whether the Sink
\* archived the page or refused; a run that found no such record writes
\* neither the Sink nor the store
C33_ArchivePathOutcome ==
    TookArchivePath(last) =>
        IF last.had_page
        THEN /\ tasks_store[last.task_id].exists
             /\ tasks_store[last.task_id].sync_status = "archived"
             /\ <<"worker.error", last.task_id>> \notin last.log
             /\ ~last.failed
             /\ \/ <<"notion.archive_page", last.task_id>> \in last.log
                \/ <<"log.archive_failed", last.task_id>> \in last.log
        ELSE \A e \in last.log :
                /\ e[1] \notin NotionWriteCalls
                /\ e[1] \notin {"store.save_task_state", "store.delete_task_state",
                                "store.save_project_state"}

\* the Sink refused to archive the page and the record is ARCHIVED all the same
C33_Witness ==
    /\ TookArchivePath(last)
    /\ last.had_page
    /\ <<"log.archive_failed", last.task_id>> \in last.log
    /\ tasks_store[last.task_id].sync_status = "archived"

\* an ARCHIVE job of a task without a record
C33_WitnessNoRecord ==
    /\ TookArchivePath(last)
    /\ last.action = "ARCHIVE"
    /\ ~last.had_record

\* C34: a reconcile run that does not fetch the task of a record already in
\* status ARCHIVED makes no Sink archive call for it and does not write the
\* record
C34_ArchivedRecordLeftAlone ==
    [][\A t \in Tasks :
          (/\ tasks_store[t].exists
           /\ tasks_store[t].sync_status = "archived"
           /\ last'.op = "reconcile"
           /\ ~last'.failed
           /\ t \notin last'.fetched) =>
             /\ <<"notion.archive_page", t>> \notin last'.log
             /\ <<"store.save_task_state", t>> \notin last'.log]_vars

\* C35: a reconcile run makes no Source write for a task whose record is in
\* status ARCHIVED and stays so during the run (the task is not among the
\* fetched ones): the Completed flag the archive set on the page is not pushed
\* to the Source
C35_NoPullForArchivedRecord ==
    [][\A t \in Tasks :
          (/\ tasks_store[t].exists
           /\ tasks_store[t].sync_status = "archived"
           /\ last'.op = "reconcile"
           /\ t \notin last'.fetched) =>
             last'.log \cap SourceWrites(t) = {}]_vars

\* an UPSERT of a completed task that is without the sync tag and has a record
C36_Case ==
    /\ last.op = "worker" /\ last.action = "UPSERT"
    /\ last.exists /\ ~last.tagged /\ last.checked /\ last.had_record

EligibleToLabel(task) ==
    /\ ~task.checked
    /\ ~InInbox(task)
    /\ ~(task.due # NoDue /\ task.is_recurring)

\* C37: after the auto-tag step of a reconcile run every task the step
\* fetched (the active tasks) carries the sync tag iff it is eligible; the
\* step added the tag to the eligible tasks that lacked it, removed it from
\* the ineligible tasks that had it, and made no label call for the others
C37_AutoTagMatchesEligibility ==
    [][last'.op = "reconcile_fetch" =>
          \A t \in {u \in Tasks : todoist[u].exists /\ ~todoist[u].checked} :
             /\ SyncTagged(todoist'[t]) <=> EligibleToLabel(todoist[t])
             /\ <<"todoist.add_label_to_task", t>> \in last'.log
                   <=> (EligibleToLabel(todoist[t]) /\ ~SyncTagged(todoist[t]))
             /\ <<"todoist.remove_label_from_task", t>> \in last'.log
                   <=> (~EligibleToLabel(todoist[t]) /\ SyncTagged(todoist[t]))]_vars

\* the step took the tag from a task that had become recurring
C37_Witness ==
    /\ last.op = "reconcile_fetch"
    /\ \E t \in Tasks :
          /\ todoist[t].exists /\ ~todoist[t].checked
          /\ todoist[t].due # NoDue /\ todoist[t].is_recurring
          /\ ~InInbox(todoist[t])
          /\ <<"todoist.remove_label_from_task", t>> \in last.log
          /\ ~SyncTagged(todoist[t])

\* the step gave the tag to an eligible task
C37_WitnessAdded ==
    /\ last.op = "reconcile_fetch"
    /\ \E t \in Tasks :
          /\ todoist[t].exists /\ EligibleToLabel(todoist[t])
          /\ <<"todoist.add_label_to_task", t>> \in last.log
          /\ SyncTagged(todoist[t])

\* C38: a run creates a project page for a project only when, before the
\* run, the project had neither a record nor a page in the Sink, and the
\* project is not the Inbox; no project ever has a second page; a worker run
\* that wrote the page of a task relates it to the one page of the task's
\* project; the Inbox never gets a page or a record
C38_ProjectResolvedOnce ==
    [][\A p \in ProjectIds :
          /\ <<"notion.create_project_page", p>> \in last'.log =>
                /\ p \notin projects_store
                /\ p \notin notion_projects
                /\ project_name(p) # "Inbox"
                /\ p \in notion_projects' /\ p \in projects_store'
          /\ another_page(p) \notin notion_projects'
          /\ (/\ last'.op = "worker" /\ last'.clean /\ last'.fresh
              /\ todoist[last'.task_id].project_id = p
              /\ p \in projects_store) =>
                /\ <<"notion.create_project_page", p>> \notin last'.log
                /\ notion'[tasks_store'[last'.task_id].capacities_object_id].project
                      = project_page_id(p)
          /\ project_name(p) = "Inbox" =>
                /\ p \notin notion_projects' /\ p \notin projects_store'
                /\ \A call \in {"notion.create_project_page",
                                 "notion.update_project_page",
                                 "store.save_project_state"} :
                       <<call, p>> \notin last'.log]_vars

\* a clean UPSERT of a task whose project had been resolved before
C38_Witness ==
    /\ last.op = "worker" /\ last.clean /\ last.fresh /\ last.repeat
    /\ todoist[last.task_id].project_id \in projects_store
    /\ todoist[last.task_id].project_id \in notion_projects
    /\ <<"notion.update_todo_page", last.task_id>> \in last.log
    /\ <<"notion.create_project_page", todoist[last.task_id].project_id>> \notin last.log

\* an UPSERT of a tagged Inbox task
C38_WitnessInbox ==
    /\ last.op = "worker" /\ last.action = "UPSERT" /\ last.tagged /\ last.inbox
    /\ <<"log.filtered_project", last.task_id>> \in last.log

(***************************************************************************)
(* SpecProjects: two tagged tasks of one project that has no page yet, and *)
(* their UPSERTs in flight together.  _ensure_project_exists awaits the    *)
(* store and the Sink at each call and holds no lock, so between its reads *)
(* (the project record, the query by project id) and its create the other  *)
(* request may run.                                                        *)
(***************************************************************************)
InitProjects ==
    /\ todoist = [t \in Tasks |-> TodoistTask("a", "", "p1", {"capsync"}, 1, NoDue, FALSE)]
    /\ notion = [p \in PageIds |-> NoPage]
    /\ notion_projects = {}
    /\ tasks_store = [t \in Tasks |-> NoState]
    /\ projects_store = {}
    /\ last_reconcile = FALSE
    /\ queue = <<>>
    /\ unacked = {}
    /\ inflight = [s \in Slots |-> Idle]
    /\ last = NoRun

\* an UPSERT in flight runs up to the answer of the Sink query by project id
ProjectLookup(slot) ==
    /\ inflight[slot].busy
    /\ inflight[slot].message.action = "UPSERT"
    /\ ~inflight[slot].held.go
    /\ ~inflight[slot].held.seen.looked
    /\ \E task \in {task_seen(World, inflight[slot].message)} :
          /\ task.exists
          /\ has_capsync_label(task.labels)
          /\ inflight' = [inflight EXCEPT
                             ![slot].held = [NoHeld EXCEPT
                                 !.task = task,
                                 !.seen = ensure_project_lookup(World, task.project_id)]]
    /\ last' = NoRun
    /\ UNCHANGED <<todoist, notion, notion_projects, tasks_store, projects_store,
                   last_reconcile, queue, unacked>>

\* the UPSERT goes on from what it saw of the project: update or create of
\* the project page, the project record, then the reads that settle the
\* task page
ProjectResolve(slot) ==
    /\ inflight[slot].busy
    /\ ~inflight[slot].held.go
    /\ inflight[slot].held.seen.looked
    /\ \E r \in {upsert_resolve_seen(World, inflight[slot].held.task,
                                      inflight[slot].message.todoist_task_id,
                                      tasks_store[inflight[slot].message.todoist_task_id],
                                      get_current_timestamp, inflight[slot].held.seen)} :
          /\ r.go
          /\ Commit(r.w)
          /\ inflight' = [inflight EXCEPT
                             ![slot].held = [go |-> TRUE, page |-> r.page,
                                             project |-> r.project,
                                             task |-> inflight[slot].held.task,
                                             seen |-> inflight[slot].held.seen]]
          /\ last' = [NoRun EXCEPT !.log = r.w.log]
    /\ UNCHANGED <<queue, unacked>>

NextProjects ==
    \/ \E slot \in Slots, t \in Tasks :
           PushBegin(slot, PubSubMessage("UPSERT", t, "none", NoTask))
    \/ \E slot \in Slots : ProjectLookup(slot)
    \/ \E slot \in Slots : ProjectResolve(slot)
    \/ \E slot \in Slots, reject \in Rejects : Write(slot, reject)

SpecProjects == InitProjects /\ [][NextProjects]_vars

\* C39: however the UPSERTs of two tasks of one project interleave, the
\* project never has a second page in the Sink
C39_OneProjectPage ==
    \A p \in ProjectIds : another_page(p) \notin notion_projects

(***************************************************************************)
(* SpecHash: the reverse fingerprint as a function of what is on a page.   *)
(* Two task pages hold any values; the Sink user changes one field of the  *)
(* first page at a time; the reverse path stores the fingerprint of the    *)
(* page of a task in the record of the task.                               *)
(***************************************************************************)
HashTitles == {"a", "null"}
HashPriorities == {"P1", "P4", "High"}
HashDues == {NoDue} \cup DueDates
HashProjects == {NoId, project_page_id("p1")}
\* the page the Sink user works on; the other page is the one it is compared to
HashEdited == {"n1"}

HashPage(title, priority, due, completed, task_id, project) ==
    [NoPage EXCEPT !.exists = TRUE, !.title = title, !.priority = priority,
                   !.due = due, !.completed = completed,
                   !.todoist_task_id = task_id, !.project = project,
                   !.written_by = "user"]

InitHash ==
    /\ todoist = [t \in Tasks |-> IF t \in UserTasks
                                  THEN TodoistTask("a", "", "p1", {"capsync"}, 1, NoDue, FALSE)
                                  ELSE NoTask]
    /\ \E title \in HashTitles, priority \in HashPriorities, completed \in BOOLEAN,
          project \in HashProjects :
          notion = [p \in PageIds |->
                       IF p = "n1"
                       THEN HashPage("a", "P1", NoDue, FALSE, "T1", project_page_id("p1"))
                       ELSE HashPage(title, priority, NoDue, completed, "T2", project)]
    /\ notion_projects = {"p1"}
    /\ tasks_store = [t \in Tasks |-> NoState]
    /\ projects_store = {"p1"}
    /\ last_reconcile = TRUE
    /\ queue = <<>>
    /\ unacked = {}
    /\ inflight = [s \in Slots |-> Idle]
    /\ last = NoRun

\* the Sink user changes one property of a task page; the Sink moves the
\* last-edited time of the page
SinkChange(p) ==
    /\ notion[p].exists
    /\ \/ \E title \in HashTitles \ {notion[p].title} :
             notion' = [notion EXCEPT ![p].title = title, ![p].edited = TRUE]
       \/ \E priority \in HashPriorities \ {notion[p].priority} :
             notion' = [notion EXCEPT ![p].priority = priority, ![p].edited = TRUE]
       \/ \E due \in HashDues \ {notion[p].due} :
             notion' = [notion EXCEPT ![p].due = due, ![p].edited = TRUE]
       \/ notion' = [notion EXCEPT ![p].completed = ~@, ![p].edited = TRUE]
       \/ \E project \in HashProjects \ {notion[p].project} :
             notion' = [notion EXCEPT ![p].project = project, ![p].edited = TRUE]
    /\ last' = [NoRun EXCEPT !.op = "sink_edit", !.task_id = notion[p].todoist_task_id]
    /\ UNCHANGED <<todoist, notion_projects, tasks_store, projects_store,
                   last_reconcile, queue, unacked, inflight>>

\* the reverse path takes the fingerprint of the page of a task and saves it
\* in the record of the task
StoreFingerprint(p) ==
    /\ notion[p].exists
    /\ notion[p].todoist_task_id \in UserTasks
    /\ \E notion_props \in {extract_notion_task_properties(notion[p])} :
          tasks_store' =
              [tasks_store EXCEPT
                  ![notion_props.todoist_task_id] =
                      TaskSyncState(p, NoHash,
                                    compute_notion_properties_hash(notion_props),
                                    "ok", "notion")]
    /\ last' = NoRun
    /\ UNCHANGED <<todoist, notion, notion_projects, projects_store,
                   last_reconcile, queue, unacked, inflight>>

NextHash ==
    \/ \E p \in HashEdited : SinkChange(p)
    \/ \E p \in PageIds : StoreFingerprint(p)

SpecHash == InitHash /\ [][NextHash]_vars

\* two extracted property sets agree on title, priority, due date and
\* completed
SameSyncFields(a, b) ==
    /\ a.title = b.title
    /\ a.priority = b.priority
    /\ a.due_date = b.due_date
    /\ a.completed = b.completed

\* C40: the property sets extracted from two pages have the same reverse
\* fingerprint exactly when they agree on title, priority, due date and
\* completed, whatever their task id, page id, edit time and project
\* relation; a change of a page changes its fingerprint exactly when it
\* changes one of the four fields; the fingerprint stored in a record
\* equals that of a page exactly when the page agrees on the four fields with
\* the page the record was taken from
C40_FingerprintOfFourFields ==
    [][/\ \A p, q \in PageIds :
             SameSyncFields(extract_notion_task_properties(notion[p]),
                            extract_notion_task_properties(notion[q]))
             <=> compute_notion_properties_hash(extract_notion_task_properties(notion[p]))
                 = compute_notion_properties_hash(extract_notion_task_properties(notion[q]))
       /\ \A p \in PageIds :
             SameSyncFields(extract_notion_task_properties(notion[p]),
                            extract_notion_task_properties(notion'[p]))
             <=> compute_notion_properties_hash(extract_notion_task_properties(notion[p]))
                 = compute_notion_properties_hash(extract_notion_task_properties(notion'[p]))
       /\ \A t \in UserTasks, q \in PageIds :
             (tasks_store'[t].exists /\ tasks_store'[t] # tasks_store[t]) =>
                (SameSyncFields(
                     extract_notion_task_properties(notion[tasks_store'[t].capacities_object_id]),
                     extract_notion_task_properties(notion[q]))
                 <=> tasks_store'[t].notion_payload_hash
                     = compute_notion_properties_hash(
                           extract_notion_task_properties(notion[q])))]_vars

\* the stored fingerprint of the page of T1 is that of the other page, which
\* names another task, whose project relation and priority name differ and
\* which was not edited
C40_Witness ==
    /\ tasks_store["T1"].exists
    /\ tasks_store["T1"].capacities_object_id = "n1"
    /\ tasks_store["T1"].notion_payload_hash
          = compute_notion_properties_hash(extract_notion_task_properties(notion["n2"]))
    /\ notion["n2"].todoist_task_id # notion["n1"].todoist_task_id
    /\ notion["n2"].project # notion["n1"].project
    /\ notion["n1"].edited /\ ~notion["n2"].edited
    /\ notion["n2"].priority # notion["n1"].priority

\* the page of T1 was changed in one of the four fields after its
\* fingerprint was stored
C40_WitnessChanged ==
    /\ tasks_store["T1"].exists
    /\ tasks_store["T1"].capacities_object_id = "n1"
    /\ notion["n1"].edited
    /\ notion["n1"].due # NoDue
    /\ tasks_store["T1"].notion_payload_hash
          # compute_notion_properties_hash(extract_notion_task_properties(notion["n1"]))

====
